---- MODULE Spec2Model ----
(***************************************************************************)
(* A model of the XML-RPC codec of xml-rpc-rs: the wire codec              *)
(* (src/value.rs, src/messages.rs), the typed encoder and decoder          *)
(* (src/xmlfmt/ser.rs, src/xmlfmt/de.rs) and the parameter convention      *)
(* (src/xmlfmt/mod.rs, src/xmlfmt/parse.rs).                               *)
(*                                                                         *)
(* Text is a sequence of one-character strings.  Integers are kept as      *)
(* sign and magnitude in little-endian limbs, so that the 32- and 64-bit   *)
(* ranges of the program are exact.                                        *)
(***************************************************************************)
EXTENDS Integers, Sequences, FiniteSets, TLC

VARIABLES pc, msg, wire, res

vars == <<pc, msg, wire, res>>

(***************************************************************************)
(* Generic helpers.                                                        *)
(***************************************************************************)
NoValue == [k |-> "none"]

Ok(v) == [ok |-> TRUE, val |-> v]

Err(e) == [ok |-> FALSE, val |-> e]

RECURSIVE SeqsUpTo(_, _)
SeqsUpTo(S, n) ==
    IF n = 0 THEN {<<>>}
    ELSE LET shorter == SeqsUpTo(S, n - 1)
         IN  shorter \cup {Append(s, x) : s \in {t \in shorter : Len(t) = n - 1}, x \in S}

(***************************************************************************)
(* Integers: sign and magnitude, the magnitude in limbs of four decimal    *)
(* digits, least significant first, without leading zero limbs.            *)
(***************************************************************************)
LimbBase == 10 ^ 4

RECURSIVE Limbs(_)
Limbs(n) == IF n = 0 THEN <<>> ELSE <<n % LimbBase>> \o Limbs(n \div LimbBase)

I(n) == IF n < 0 THEN [neg |-> TRUE, mag |-> Limbs(-n)]
                 ELSE [neg |-> FALSE, mag |-> Limbs(n)]

RECURSIVE Normalize(_)
Normalize(m) ==
    IF m = <<>> THEN <<>>
    ELSE IF m[Len(m)] = 0 THEN Normalize(SubSeq(m, 1, Len(m) - 1))
    ELSE m

Big(neg, m) ==
    LET n == Normalize(m)
    IN  [neg |-> (neg /\ n # <<>>), mag |-> n]

RECURSIVE MagLess(_, _)
MagLess(a, b) ==
    IF Len(a) # Len(b) THEN Len(a) < Len(b)
    ELSE IF a = <<>> THEN FALSE
    ELSE IF a[Len(a)] # b[Len(b)] THEN a[Len(a)] < b[Len(b)]
    ELSE MagLess(SubSeq(a, 1, Len(a) - 1), SubSeq(b, 1, Len(b) - 1))

BigLess(a, b) ==
    IF a.neg /\ ~b.neg THEN TRUE
    ELSE IF ~a.neg /\ b.neg THEN FALSE
    ELSE IF a.neg THEN MagLess(b.mag, a.mag)
    ELSE MagLess(a.mag, b.mag)

BigLeq(a, b) == a = b \/ BigLess(a, b)

RECURSIVE SubLimbs(_, _, _)
SubLimbs(a, b, borrow) ==
    IF a = <<>> THEN <<>>
    ELSE LET bi == IF b = <<>> THEN 0 ELSE Head(b)
             d  == Head(a) - bi - borrow
             bt == IF b = <<>> THEN <<>> ELSE Tail(b)
         IN  IF d < 0 THEN <<d + LimbBase>> \o SubLimbs(Tail(a), bt, 1)
                      ELSE <<d>> \o SubLimbs(Tail(a), bt, 0)

MagSub(a, b) == Normalize(SubLimbs(a, b, 0))

RECURSIVE MagMod(_, _)
MagMod(m, d) ==
    IF m = <<>> THEN 0
    ELSE (Head(m) + (LimbBase % d) * MagMod(Tail(m), d)) % d


(***************************************************************************)
(* The integer types of the typed layer and of the wire Int.               *)
(***************************************************************************)
SignedTypes == {"i8", "i16", "i32", "i64"}

UnsignedTypes == {"u8", "u16", "u32", "u64"}

IntTypes == SignedTypes \cup UnsignedTypes

Pow2_32 == [neg |-> FALSE, mag |-> <<7296, 9496, 42>>]

Pow2_64 == [neg |-> FALSE, mag |-> <<1616, 955, 737, 6744, 1844>>]

IntMax(ty) ==
    CASE ty = "i8"  -> I(127)
      [] ty = "i16" -> I(32767)
      [] ty = "i32" -> [neg |-> FALSE, mag |-> <<3647, 4748, 21>>]
      [] ty = "i64" -> [neg |-> FALSE, mag |-> <<5807, 5477, 368, 3372, 922>>]
      [] ty = "u8"  -> I(255)
      [] ty = "u16" -> I(65535)
      [] ty = "u32" -> [neg |-> FALSE, mag |-> <<7295, 9496, 42>>]
      [] ty = "u64" -> [neg |-> FALSE, mag |-> <<1615, 955, 737, 6744, 1844>>]

IntMin(ty) ==
    CASE ty = "i8"  -> I(-128)
      [] ty = "i16" -> I(-32768)
      [] ty = "i32" -> [neg |-> TRUE, mag |-> <<3648, 4748, 21>>]
      [] ty = "i64" -> [neg |-> TRUE, mag |-> <<5808, 5477, 368, 3372, 922>>]
      [] OTHER      -> I(0)

InRange(b, ty) == BigLeq(IntMin(ty), b) /\ BigLeq(b, IntMax(ty))

(***************************************************************************)
(* Decimal text of integers: Display (to_string) and FromStr (parse).      *)
(***************************************************************************)
Digits == <<"0", "1", "2", "3", "4", "5", "6", "7", "8", "9">>

DigitSet == {Digits[i] : i \in 1..10}

DigitVal(c) == (CHOOSE i \in 1..10 : Digits[i] = c) - 1

LimbDigits(l) ==
    <<Digits[(l \div 1000) + 1], Digits[((l \div 100) % 10) + 1],
      Digits[((l \div 10) % 10) + 1], Digits[(l % 10) + 1]>>

RECURSIVE StripLeadingZeros(_)
StripLeadingZeros(ds) ==
    IF Len(ds) > 1 /\ Head(ds) = "0" THEN StripLeadingZeros(Tail(ds)) ELSE ds

RECURSIVE AllLimbDigits(_)
AllLimbDigits(m) ==
    IF m = <<>> THEN <<>> ELSE AllLimbDigits(Tail(m)) \o LimbDigits(Head(m))

MagDigits(m) == IF m = <<>> THEN <<"0">> ELSE StripLeadingZeros(AllLimbDigits(m))

to_string(b) == (IF b.neg THEN <<"-">> ELSE <<>>) \o MagDigits(b.mag)

RECURSIVE DigitsValue(_)
DigitsValue(ds) ==
    IF ds = <<>> THEN 0 ELSE DigitsValue(SubSeq(ds, 1, Len(ds) - 1)) * 10 + DigitVal(ds[Len(ds)])

RECURSIVE DigitsToMag(_)
DigitsToMag(ds) ==
    IF ds = <<>> THEN <<>>
    ELSE LET n  == Len(ds)
             lo == IF n > 4 THEN SubSeq(ds, n - 3, n) ELSE ds
         IN  <<DigitsValue(lo)>> \o DigitsToMag(SubSeq(ds, 1, n - Len(lo)))

AllDigits(ds) == \A i \in 1..Len(ds) : ds[i] \in DigitSet

from_str(s, ty) ==
    IF s = <<>> THEN Err("Empty")
    ELSE IF s[1] \in {"+", "-"} /\ Len(s) = 1 THEN Err("InvalidDigit")
    ELSE LET isneg == s[1] = "-" /\ ty \in SignedTypes
             ds    == IF s[1] = "+" \/ isneg THEN Tail(s) ELSE s
         IN  IF ~AllDigits(ds) THEN Err("InvalidDigit")
             ELSE LET b == Big(isneg, DigitsToMag(ds))
                  IN  IF InRange(b, ty) THEN Ok(b) ELSE Err("Overflow")

(***************************************************************************)
(* `v as T` for an i32 v (impl_from_i32) and i64::from(v).                 *)
(***************************************************************************)
WrapUnsigned(b, m) ==
    LET r == MagMod(b.mag, m)
    IN  IF b.neg /\ r # 0 THEN m - r ELSE r

\* `v as T` replaced by a conversion that keeps the number
from_i32_Identity(v, ty) == v

from_i32(v, ty) ==
    CASE ty = "u8"  -> I(WrapUnsigned(v, 256))
      [] ty = "u16" -> I(WrapUnsigned(v, 65536))
      [] ty = "u32" -> IF v.neg THEN Big(FALSE, MagSub(Pow2_32.mag, v.mag)) ELSE v
      [] ty = "u64" -> IF v.neg THEN Big(FALSE, MagSub(Pow2_64.mag, v.mag)) ELSE v
      [] ty = "i8"  -> LET r == WrapUnsigned(v, 256) IN I(IF r >= 128 THEN r - 256 ELSE r)
      [] ty = "i16" -> LET r == WrapUnsigned(v, 65536) IN I(IF r >= 32768 THEN r - 65536 ELSE r)
      [] ty = "i32" -> v
      [] ty = "i64" -> v


(***************************************************************************)
(* The wire Value (src/value.rs).  A Struct is a list of (name, value)     *)
(* pairs.  PartialEq is derived, so Doubles compare as IEEE numbers.       *)
(***************************************************************************)
VInt(b) == [k |-> "Int", v |-> b]

VBool(b) == [k |-> "Bool", v |-> b]

VString(s) == [k |-> "String", v |-> s]

VDouble(d) == [k |-> "Double", v |-> d]

VDateTime(d) == [k |-> "DateTime", v |-> d]

VBase64(bs) == [k |-> "Base64", v |-> bs]

VArray(items) == [k |-> "Array", v |-> items]

VStruct(members) == [k |-> "Struct", v |-> members]

Fin(neg, int, frac) == [cls |-> "fin", neg |-> neg, int |-> int, frac |-> frac]

Inf(neg) == [cls |-> "inf", neg |-> neg, int |-> <<>>, frac |-> <<>>]

NaN == [cls |-> "nan", neg |-> FALSE, int |-> <<>>, frac |-> <<>>]

RECURSIVE ValueEq(_, _)
ValueEq(a, b) ==
    IF a.k # b.k THEN FALSE
    ELSE CASE a.k = "Double" -> a.v.cls # "nan" /\ b.v.cls # "nan" /\ a.v = b.v
           [] a.k = "Array"  -> /\ Len(a.v) = Len(b.v)
                                /\ \A i \in 1..Len(a.v) : ValueEq(a.v[i], b.v[i])
           [] a.k = "Struct" -> /\ Len(a.v) = Len(b.v)
                                /\ \A i \in 1..Len(a.v) :
                                      /\ a.v[i][1] = b.v[i][1]
                                      /\ ValueEq(a.v[i][2], b.v[i][2])
           [] OTHER          -> a.v = b.v

ParamsEq(p, q) == Len(p) = Len(q) /\ \A i \in 1..Len(p) : ValueEq(p[i], q[i])

(***************************************************************************)
(* Text of the leaves: f64 Display / FromStr, chrono RFC 3339, base64.     *)
(***************************************************************************)
f64_to_string(d) ==
    CASE d.cls = "nan" -> <<"N", "a", "N">>
      [] d.cls = "inf" -> (IF d.neg THEN <<"-">> ELSE <<>>) \o <<"i", "n", "f">>
      [] OTHER         -> (IF d.neg THEN <<"-">> ELSE <<>>) \o d.int \o
                          (IF d.frac = <<>> THEN <<>> ELSE <<".">> \o d.frac)

RECURSIVE StripTrailingZeros(_)
StripTrailingZeros(ds) ==
    IF ds # <<>> /\ ds[Len(ds)] = "0" THEN StripTrailingZeros(SubSeq(ds, 1, Len(ds) - 1)) ELSE ds

IndexOf(s, c) ==
    IF \E i \in 1..Len(s) : s[i] = c
    THEN CHOOSE i \in 1..Len(s) : s[i] = c /\ \A j \in 1..(i - 1) : s[j] # c
    ELSE 0

f64_from_str(s) ==
    IF s = <<>> THEN Err("Empty")
    ELSE LET neg  == s[1] = "-"
             body == IF s[1] \in {"+", "-"} THEN Tail(s) ELSE s
             dot  == IndexOf(body, ".")
             int  == IF dot = 0 THEN body ELSE SubSeq(body, 1, dot - 1)
             frac == IF dot = 0 THEN <<>> ELSE SubSeq(body, dot + 1, Len(body))
         IN  IF body = <<"N", "a", "N">> THEN Ok(NaN)
             ELSE IF body = <<"i", "n", "f">> THEN Ok(Inf(neg))
             ELSE IF int \o frac # <<>> /\ AllDigits(int) /\ AllDigits(frac)
                  THEN Ok(Fin(neg, StripLeadingZeros(IF int = <<>> THEN <<"0">> ELSE int),
                              StripTrailingZeros(frac)))
             ELSE Err("Invalid")

DateTimes == {"1996-12-19T16:39:57-08:00"}

to_rfc3339(d) ==
    CASE d = "1996-12-19T16:39:57-08:00" ->
             <<"1", "9", "9", "6", "-", "1", "2", "-", "1", "9", "T", "1", "6", ":",
               "3", "9", ":", "5", "7", "-", "0", "8", ":", "0", "0">>

parse_from_rfc3339(s) ==
    IF \E d \in DateTimes : to_rfc3339(d) = s
    THEN Ok(CHOOSE d \in DateTimes : to_rfc3339(d) = s)
    ELSE Err("Invalid")

B64 == <<"A", "B", "C", "D", "E", "F", "G", "H", "I", "J", "K", "L", "M", "N", "O", "P",
         "Q", "R", "S", "T", "U", "V", "W", "X", "Y", "Z", "a", "b", "c", "d", "e", "f",
         "g", "h", "i", "j", "k", "l", "m", "n", "o", "p", "q", "r", "s", "t", "u", "v",
         "w", "x", "y", "z", "0", "1", "2", "3", "4", "5", "6", "7", "8", "9", "+", "/">>

B64Set == {B64[i] : i \in 1..64}

B64Val(c) == (CHOOSE i \in 1..64 : B64[i] = c) - 1

RECURSIVE base64_encode(_)
base64_encode(bs) ==
    IF bs = <<>> THEN <<>>
    ELSE IF Len(bs) = 1
         THEN <<B64[(bs[1] \div 4) + 1], B64[(bs[1] % 4) * 16 + 1], "=", "=">>
    ELSE IF Len(bs) = 2
         THEN <<B64[(bs[1] \div 4) + 1], B64[(bs[1] % 4) * 16 + (bs[2] \div 16) + 1],
                B64[(bs[2] % 16) * 4 + 1], "=">>
    ELSE <<B64[(bs[1] \div 4) + 1], B64[(bs[1] % 4) * 16 + (bs[2] \div 16) + 1],
           B64[(bs[2] % 16) * 4 + (bs[3] \div 64) + 1], B64[(bs[3] % 64) + 1]>>
         \o base64_encode(SubSeq(bs, 4, Len(bs)))

RECURSIVE base64_decode(_)
base64_decode(cs) ==
    IF cs = <<>> THEN Ok(<<>>)
    ELSE IF Len(cs) < 4 \/ cs[1] \notin B64Set \/ cs[2] \notin B64Set THEN Err("Invalid")
    ELSE LET v1 == B64Val(cs[1])
             v2 == B64Val(cs[2])
             b1 == v1 * 4 + (v2 \div 16)
         IN  IF cs[3] = "="
             THEN IF cs[4] = "=" /\ Len(cs) = 4 /\ v2 % 16 = 0 THEN Ok(<<b1>>) ELSE Err("Invalid")
             ELSE IF cs[3] \notin B64Set THEN Err("Invalid")
             ELSE LET v3 == B64Val(cs[3])
                      b2 == (v2 % 16) * 16 + (v3 \div 4)
                  IN  IF cs[4] = "="
                      THEN IF Len(cs) = 4 /\ v3 % 4 = 0 THEN Ok(<<b1, b2>>) ELSE Err("Invalid")
                      ELSE IF cs[4] \notin B64Set THEN Err("Invalid")
                      ELSE LET rest == base64_decode(SubSeq(cs, 5, Len(cs)))
                           IN  IF rest.ok
                               THEN Ok(<<b1, b2, (v3 % 4) * 64 + B64Val(cs[4])>> \o rest.val)
                               ELSE rest

(***************************************************************************)
(* XML text: quick_xml escapes what BytesText::new is given, roxmltree     *)
(* resolves the entities again.                                            *)
(***************************************************************************)
EscapeChar_NoAmp(c) ==
    CASE c = "<"  -> <<"&", "l", "t", ";">>
      [] c = ">"  -> <<"&", "g", "t", ";">>
      [] OTHER    -> <<c>>

EscapeChar(c) ==
    CASE c = "<"  -> <<"&", "l", "t", ";">>
      [] c = ">"  -> <<"&", "g", "t", ";">>
      [] c = "&"  -> <<"&", "a", "m", "p", ";">>
      [] c = "'"  -> <<"&", "a", "p", "o", "s", ";">>
      [] c = "\"" -> <<"&", "q", "u", "o", "t", ";">>
      [] OTHER    -> <<c>>

RECURSIVE escape(_)
escape(s) == IF s = <<>> THEN <<>> ELSE EscapeChar(Head(s)) \o escape(Tail(s))

EntityChar(name) ==
    CASE name = <<"l", "t">>           -> "<"
      [] name = <<"g", "t">>           -> ">"
      [] name = <<"a", "m", "p">>      -> "&"
      [] name = <<"a", "p", "o", "s">> -> "'"
      [] name = <<"q", "u", "o", "t">> -> "\""
      [] OTHER                         -> "?"

RECURSIVE unescape(_)
unescape(s) ==
    IF s = <<>> THEN <<>>
    ELSE IF Head(s) = "&" /\ IndexOf(s, ";") > 0
         THEN LET semi == IndexOf(s, ";")
              IN  <<EntityChar(SubSeq(s, 2, semi - 1))>> \o unescape(SubSeq(s, semi + 1, Len(s)))
    ELSE <<Head(s)>> \o unescape(Tail(s))


(***************************************************************************)
(* The written document is the sequence of events the quick_xml Writer     *)
(* emits; Document::parse (roxmltree) turns it into a tree of nodes.       *)
(***************************************************************************)
Decl == [k |-> "decl", s |-> "xml"]

Start(tag) == [k |-> "start", s |-> tag]

End(tag) == [k |-> "end", s |-> tag]

Text(chars) == [k |-> "text", s |-> chars]

Elem(tag, children) == [k |-> "elem", tag |-> tag, ch |-> children]

TextNode(chars) == [k |-> "text", tag |-> "", ch |-> chars]

write_declaration == <<Decl>>

write_text_content(tag, text) == <<Start(tag), Text(escape(text)), End(tag)>>

write_inner_content(tag, inner) == <<Start(tag)>> \o inner \o <<End(tag)>>

RECURSIVE ParseNodes(_, _)
ParseNodes(t, i) ==
    IF i > Len(t) \/ t[i].k = "end" THEN [ok |-> TRUE, nodes |-> <<>>, next |-> i]
    ELSE IF t[i].k = "decl" THEN ParseNodes(t, i + 1)
    ELSE IF t[i].k = "text"
         THEN LET rest == ParseNodes(t, i + 1)
              IN  [rest EXCEPT !.nodes =
                      (IF t[i].s = <<>> THEN <<>> ELSE <<TextNode(unescape(t[i].s))>>) \o @]
    ELSE LET inner == ParseNodes(t, i + 1)
         IN  IF ~inner.ok \/ inner.next > Len(t) \/ t[inner.next].s # t[i].s
             THEN [ok |-> FALSE, nodes |-> <<>>, next |-> i]
             ELSE LET rest == ParseNodes(t, inner.next + 1)
                  IN  [rest EXCEPT !.nodes = <<Elem(t[i].s, inner.nodes)>> \o @]

Document_parse(data) ==
    LET r == ParseNodes(data, 1)
    IN  IF r.ok /\ r.next = Len(data) + 1 /\ \E i \in 1..Len(r.nodes) : r.nodes[i].k = "elem"
        THEN Ok(Elem("", r.nodes))
        ELSE Err("xml")

(***************************************************************************)
(* roxmltree node queries used by the readers.                             *)
(***************************************************************************)
has_tag_name(node, tag) == node.k = "elem" /\ node.tag = tag

is_element(node) == node.k = "elem"

is_text(node) == node.k = "text"

FindFirst(nodes, P(_)) ==
    IF \E i \in 1..Len(nodes) : P(nodes[i])
    THEN CHOOSE i \in 1..Len(nodes) : P(nodes[i]) /\ \A j \in 1..(i - 1) : ~P(nodes[j])
    ELSE 0

literal_text_in_node(node) ==
    LET i == FindFirst(node.ch, is_text)
    IN  IF i = 0 THEN <<>> ELSE node.ch[i].ch

(***************************************************************************)
(* Value::read_xml and Value::write_xml.                                   *)
(***************************************************************************)
\* a <boolean> read as a signed integer
read_boolean_Signed(text) ==
    LET r == from_str(text, "i32")
    IN  IF r.ok THEN Ok(VBool(r.val # I(0))) ELSE r

\* literal_text_in_node(child).parse::<u8>()? != 0
read_boolean(text) ==
    LET r == from_str(text, "u8")
    IN  IF r.ok THEN Ok(VBool(r.val # I(0))) ELSE r

RECURSIVE Value_read_xml(_), ReadValuesOk(_), ReadMembersOk(_), FirstValueOk(_)

\* filter_map(|n| Value::read_xml(n).ok()): the values that decode, in order
ReadValuesOk(nodes) ==
    IF nodes = <<>> THEN <<>>
    ELSE LET r == Value_read_xml(Head(nodes))
         IN  (IF r.ok THEN <<r.val>> ELSE <<>>) \o ReadValuesOk(Tail(nodes))

\* find_map(|n| Value::read_xml(n).ok()): the first child that decodes
FirstValueOk(nodes) ==
    IF nodes = <<>> THEN Err("none")
    ELSE LET r == Value_read_xml(Head(nodes))
         IN  IF r.ok THEN r ELSE FirstValueOk(Tail(nodes))

ReadMembersOk(nodes) ==
    IF nodes = <<>> THEN <<>>
    ELSE LET m    == Head(nodes)
             rest == ReadMembersOk(Tail(nodes))
         IN  IF ~has_tag_name(m, "member") THEN rest
             ELSE LET n == FindFirst(m.ch, LAMBDA c : has_tag_name(c, "name"))
                  IN  IF n = 0 THEN rest
                      ELSE LET v == FirstValueOk(m.ch)
                           IN  IF ~v.ok THEN rest
                               ELSE <<<<literal_text_in_node(m.ch[n]), v.val>>>> \o rest

Value_read_xml(node) ==
    IF ~has_tag_name(node, "value") THEN Err("Expected node with tag name value")
    ELSE LET e == FindFirst(node.ch, is_element)
             t == FindFirst(node.ch, is_text)
         IN  IF e # 0
             THEN LET child == node.ch[e]
                      text  == literal_text_in_node(child)
                  IN  CASE child.tag \in {"i4", "int"} ->
                               LET r == from_str(text, "i32")
                               IN  IF r.ok THEN Ok(VInt(r.val)) ELSE r
                        [] child.tag = "boolean" -> read_boolean(text)
                        [] child.tag = "string" -> Ok(VString(text))
                        [] child.tag = "double" ->
                               LET r == f64_from_str(text)
                               IN  IF r.ok THEN Ok(VDouble(r.val)) ELSE r
                        [] child.tag = "dateTime.iso8601" ->
                               LET r == parse_from_rfc3339(text)
                               IN  IF r.ok THEN Ok(VDateTime(r.val)) ELSE r
                        [] child.tag = "base64" ->
                               LET r == base64_decode(text)
                               IN  IF r.ok THEN Ok(VBase64(r.val)) ELSE r
                        [] child.tag = "array" ->
                               LET d == FindFirst(child.ch, LAMBDA c : has_tag_name(c, "data"))
                               IN  Ok(VArray(IF d = 0 THEN <<>> ELSE ReadValuesOk(child.ch[d].ch)))
                        [] child.tag = "struct" -> Ok(VStruct(ReadMembersOk(child.ch)))
                        [] OTHER -> Err("Invalid value child tag")
             ELSE IF t # 0 THEN Ok(VString(node.ch[t].ch))
             ELSE Err("No valid child element found")

RECURSIVE Value_write_xml(_), WriteValues(_), WriteMembers(_)

WriteValues(items) ==
    IF items = <<>> THEN <<>> ELSE Value_write_xml(Head(items)) \o WriteValues(Tail(items))

WriteMembers(members) ==
    IF members = <<>> THEN <<>>
    ELSE write_inner_content("member",
             write_text_content("name", Head(members)[1]) \o Value_write_xml(Head(members)[2]))
         \o WriteMembers(Tail(members))

Value_write_xml(v) ==
    write_inner_content("value",
        CASE v.k = "Int"      -> write_text_content("i4", to_string(v.v))
          [] v.k = "Bool"     -> write_text_content("boolean", IF v.v THEN <<"1">> ELSE <<"0">>)
          [] v.k = "String"   -> write_text_content("string", v.v)
          [] v.k = "Double"   -> write_text_content("double", f64_to_string(v.v))
          [] v.k = "DateTime" -> write_text_content("dateTime.iso8601", to_rfc3339(v.v))
          [] v.k = "Base64"   -> write_text_content("base64", base64_encode(v.v))
          [] v.k = "Array"    -> write_inner_content("array",
                                     write_inner_content("data", WriteValues(v.v)))
          [] v.k = "Struct"   -> write_inner_content("struct", WriteMembers(v.v)))

(***************************************************************************)
(* Request and Response (src/messages.rs).                                 *)
(***************************************************************************)
Request(name, params) == [k |-> "Request", name |-> name, params |-> params]

Success(params) == [k |-> "Success", params |-> params]

Failure(code, message) == [k |-> "Failure", code |-> code, message |-> message]

RECURSIVE ReadParamNodes(_), WriteParams(_)

ReadParamNodes(nodes) ==
    IF nodes = <<>> THEN <<>>
    ELSE LET rest == ReadParamNodes(Tail(nodes))
         IN  IF ~has_tag_name(Head(nodes), "param") THEN rest
             ELSE LET v == FirstValueOk(Head(nodes).ch)
                  IN  IF v.ok THEN <<v.val>> \o rest ELSE rest

read_params(node) ==
    LET p == FindFirst(node.ch, LAMBDA c : has_tag_name(c, "params"))
    IN  IF p = 0 THEN <<>> ELSE ReadParamNodes(node.ch[p].ch)

Request_read_xml(data) ==
    LET document == Document_parse(data)
    IN  IF ~document.ok THEN document
        ELSE LET r == FindFirst(document.val.ch, LAMBDA c : has_tag_name(c, "methodCall"))
             IN  IF r = 0 THEN Err("Expected methodCall at the root of a request")
                 ELSE LET root == document.val.ch[r]
                          n    == FindFirst(root.ch, LAMBDA c : has_tag_name(c, "methodName"))
                      IN  IF n = 0 THEN Err("methodName missing inside methodCall")
                          ELSE Ok(Request(literal_text_in_node(root.ch[n]), read_params(root)))

WriteParams(params) ==
    IF params = <<>> THEN <<>>
    ELSE write_inner_content("param", Value_write_xml(Head(params))) \o WriteParams(Tail(params))

Request_write_xml(r) ==
    write_declaration \o
    write_inner_content("methodCall",
        write_text_content("methodName", r.name) \o
        write_inner_content("params", WriteParams(r.params)))

\* a map that keeps the first member of a name instead of the last one
HashMapGet_First(members, key) ==
    IF \E i \in 1..Len(members) : members[i][1] = key
    THEN Ok(members[CHOOSE i \in 1..Len(members) :
                       members[i][1] = key /\ \A j \in 1..(i - 1) : members[j][1] # key][2])
    ELSE Err("missing")

\* collect::<HashMap<String, Value>>() then remove(key): the last member of that name
HashMapGet(members, key) ==
    IF \E i \in 1..Len(members) : members[i][1] = key
    THEN Ok(members[CHOOSE i \in 1..Len(members) :
                       members[i][1] = key /\ \A j \in (i + 1)..Len(members) : members[j][1] # key][2])
    ELSE Err("missing")

Response_read_xml(data) ==
    LET document == Document_parse(data)
    IN  IF ~document.ok THEN document
        ELSE LET r == FindFirst(document.val.ch, LAMBDA c : has_tag_name(c, "methodResponse"))
             IN  IF r = 0 THEN Err("Expected methodResponse at the root of a request")
                 ELSE LET root == document.val.ch[r]
                          f    == FindFirst(root.ch, LAMBDA c : has_tag_name(c, "fault"))
                      IN  IF f = 0 THEN Ok(Success(read_params(root)))
                          ELSE LET fault_data == FirstValueOk(root.ch[f].ch)
                               IN  IF ~fault_data.ok
                                   THEN Err("Expected valid value inside fault element")
                                   ELSE IF fault_data.val.k # "Struct"
                                   THEN Err("Data inside fault needs to be a structure")
                                   ELSE LET code    == HashMapGet(fault_data.val.v, <<"f", "a", "u", "l", "t", "C", "o", "d", "e">>)
                                            message == HashMapGet(fault_data.val.v, <<"f", "a", "u", "l", "t", "S", "t", "r", "i", "n", "g">>)
                                        IN  IF ~code.ok \/ code.val.k # "Int"
                                            THEN Err("faultCode member with an integer type")
                                            ELSE IF ~message.ok \/ message.val.k # "String"
                                            THEN Err("faultString member with a string type")
                                            ELSE Ok(Failure(code.val.v, message.val.v))

\* a writer of faults that puts the message before the code
Response_write_xml_MessageFirst(r) ==
    write_declaration \o
    write_inner_content("methodResponse",
        IF r.k = "Success"
        THEN write_inner_content("params", WriteParams(r.params))
        ELSE write_inner_content("fault",
                 Value_write_xml(VStruct(<<
                     <<<<"f", "a", "u", "l", "t", "S", "t", "r", "i", "n", "g">>, VString(r.message)>>,
                     <<<<"f", "a", "u", "l", "t", "C", "o", "d", "e">>, VInt(r.code)>> >>))))

Response_write_xml(r) ==
    write_declaration \o
    write_inner_content("methodResponse",
        IF r.k = "Success"
        THEN write_inner_content("params", WriteParams(r.params))
        ELSE write_inner_content("fault",
                 Value_write_xml(VStruct(<<
                     <<<<"f", "a", "u", "l", "t", "C", "o", "d", "e">>, VInt(r.code)>>,
                     <<<<"f", "a", "u", "l", "t", "S", "t", "r", "i", "n", "g">>, VString(r.message)>> >>))))


(***************************************************************************)
(* Messages the program itself builds: Value trees of at most MaxNodes     *)
(* nodes over a few leaves, and every kind of leaf alone, in an Array and  *)
(* in a Struct.                                                            *)
(***************************************************************************)
MaxNodes == 3

MemberNames == {<<"a">>, <<"<">>}

MethodNames == {<<>>, <<"f", "&">>}

CoreLeaves == {VInt(I(-33)), VBool(TRUE), VString(<<>>), VString(<<"a", "<">>)}

AllLeaves ==
    CoreLeaves \cup
    {VInt(I(12)), VBool(FALSE), VString(<<"&", "l", "t", ";">>),
     VDouble(Fin(FALSE, <<"2">>, <<"5">>)),
     VDouble(Fin(TRUE, <<"3", "0", "0", "0", "0", "0", "0", "0", "0", "0", "0", "0", "0">>, <<>>)),
     VDouble(Inf(FALSE)), VDouble(Inf(TRUE)), VDouble(NaN),
     VDateTime("1996-12-19T16:39:57-08:00"),
     VBase64(<<>>), VBase64(<<102>>), VBase64(<<102, 111>>), VBase64(<<102, 111, 111, 98>>)}

Gen[n \in 0..MaxNodes] ==
    IF n = 0 THEN [trees |-> {}, forests |-> {<<>>}, named |-> {<<>>}]
    ELSE LET trees == IF n = 1 THEN CoreLeaves \cup {VArray(<<>>), VStruct(<<>>)}
                      ELSE {VArray(f) : f \in Gen[n - 1].forests} \cup
                           {VStruct(m) : m \in Gen[n - 1].named}
             treesOf(i) == IF i = n THEN trees ELSE Gen[i].trees
         IN  [trees   |-> trees,
              forests |-> UNION {{<<t>> \o f : t \in treesOf(i), f \in Gen[n - i].forests} : i \in 1..n},
              named   |-> UNION {{<<<<nm, t>>>> \o f : nm \in MemberNames, t \in treesOf(i),
                                                     f \in Gen[n - i].named} : i \in 1..n}]

WireParams ==
    UNION {Gen[n].forests : n \in 0..MaxNodes} \cup
    {<<l>> : l \in AllLeaves} \cup
    {<<VArray(<<l>>)>> : l \in AllLeaves} \cup
    {<<VStruct(<<<<nm, l>>>>)>> : nm \in MemberNames, l \in AllLeaves}

\* the messages of the tests encodes_request, encodes_success_response and
\* encodes_failure_response
SouthDakota == VString(<<"S", "o", "u", "t", "h", " ", "D", "a", "k", "o", "t", "a">>)

FooBar ==
    <<<<<<"f", "o", "o">>, VInt(I(42))>>,
      <<<<"b", "a", "r">>, VString(<<"b", "a", "z">>)>>>>

TestedRequest ==
    Request(<<"f", "o", "o", "b", "a", "r">>, <<SouthDakota, VStruct(FooBar)>>)

TestedSuccess ==
    Success(<<SouthDakota,
              VStruct(FooBar \o <<<<<<"b", "a", "r", "2">>, VString(<<"b", "a", "z", "2">>)>>>>)>>)

TestedFailure ==
    Failure(I(4), <<"T", "o", "o", " ", "m", "a", "n", "y", " ", "p", "a", "r", "a", "m", "e", "t",
            "e", "r", "s", ".">>)

Requests == {Request(n, p) : n \in MethodNames, p \in WireParams} \cup {TestedRequest}

FaultCodes == {I(4), I(-1)}

FaultMessages == {<<>>, <<"T", "<">>}

Responses ==
    {Success(p) : p \in WireParams} \cup
    {Failure(c, m) : c \in FaultCodes, m \in FaultMessages} \cup
    {TestedSuccess, TestedFailure}


(***************************************************************************)
(* Documents a peer sends: well-formed XML, given as the tree the peer     *)
(* wrote, with untagged, unknown and unparsable values, members without    *)
(* name or value, and fault structures of every shape.                     *)
(***************************************************************************)
MaxKids == 2

MaxFaultMembers == 3

LeafNode(tag, text) ==
    Elem("value", <<Elem(tag, IF text = <<>> THEN <<>> ELSE <<TextNode(text)>>)>>)

GoodLeafNodes ==
    {LeafNode("i4", <<"1", "2">>), LeafNode("int", <<"-", "3">>), LeafNode("string", <<"s">>),
     LeafNode("string", <<>>), LeafNode("boolean", <<"1">>),
     Elem("value", <<TextNode(<<" ">>), Elem("i4", <<TextNode(<<"7">>)>>)>>)}

UntaggedNodes == {Elem("value", <<TextNode(<<"b", "a", "r">>)>>), Elem("value", <<>>)}

BadLeafNodes ==
    {LeafNode("foo", <<>>), LeafNode("int", <<"x">>), LeafNode("boolean", <<"x">>),
     LeafNode("double", <<"x">>), LeafNode("dateTime.iso8601", <<"3", "3">>),
     LeafNode("base64", <<"!">>)}

KidNodes ==
    {LeafNode("i4", <<"1", "2">>), Elem("value", <<TextNode(<<"b", "a", "r">>)>>),
     Elem("value", <<>>), LeafNode("foo", <<>>)}

\* texts a peer may write in <boolean>
BooleanTexts ==
    {<<"0">>, <<"1">>, <<"2">>, <<"2", "5", "5">>, <<"2", "5", "6">>, <<"-", "1">>, <<"-", "0">>,
     <<"+", "1">>, <<"0", "0">>, <<"0", "1">>, <<>>, <<"x">>, <<"t", "r", "u", "e">>,
     <<" ", "1">>, <<"4", "2", "9", "4", "9", "6", "7", "2", "9", "6">>}

BooleanNodes == {LeafNode("boolean", t) : t \in BooleanTexts}

ArrayNode(kids) == Elem("value", <<Elem("array", <<Elem("data", kids)>>)>>)

NameNode(name) == Elem("name", IF name = <<>> THEN <<>> ELSE <<TextNode(name)>>)

MemberNode(name, value) == Elem("member", <<NameNode(name), value>>)

StructNode(members) == Elem("value", <<Elem("struct", members)>>)

FullMemberForms == {MemberNode(n, v) : n \in {<<"a">>, <<"b">>}, v \in KidNodes}

MemberForms ==
    FullMemberForms \cup
    {Elem("member", <<LeafNode("i4", <<"1", "2">>)>>), Elem("member", <<NameNode(<<"a">>)>>)}

ContainerNodes ==
    {ArrayNode(kids) : kids \in SeqsUpTo(KidNodes, MaxKids)} \cup
    {StructNode(ms) : ms \in SeqsUpTo(MemberForms, MaxKids)} \cup
    {ArrayNode(<<b>>) : b \in BadLeafNodes} \cup
    {StructNode(<<MemberNode(<<"a">>, b)>>) : b \in BadLeafNodes} \cup
    {Elem("value", <<Elem("array", <<>>)>>)}

NestedNodes ==
    {ArrayNode(<<c>>) : c \in ContainerNodes} \cup
    {StructNode(<<MemberNode(<<"a">>, c)>>) : c \in ContainerNodes}

PeerValueNodes ==
    GoodLeafNodes \cup UntaggedNodes \cup BadLeafNodes \cup ContainerNodes \cup NestedNodes

ParamNode(value) == Elem("param", <<value>>)

ParamsNode(values) == Elem("params", [i \in 1..Len(values) |-> ParamNode(values[i])])

MethodNameNode(name) == Elem("methodName", IF name = <<>> THEN <<>> ELSE <<TextNode(name)>>)

CallDoc(children) == Elem("", <<Elem("methodCall", children)>>)

ResponseDoc(children) == Elem("", <<Elem("methodResponse", children)>>)

PeerCallDocs ==
    {CallDoc(<<MethodNameNode(<<"f">>), ParamsNode(<<v>>)>>) : v \in PeerValueNodes} \cup
    {CallDoc(<<MethodNameNode(<<"f">>), ParamsNode(vs)>>) : vs \in SeqsUpTo(KidNodes, 2)} \cup
    {CallDoc(<<MethodNameNode(<<"f">>), ParamsNode(<<b>>)>>) : b \in BooleanNodes} \cup
    {CallDoc(<<MethodNameNode(<<>>)>>),
     CallDoc(<<TextNode(<<" ">>), MethodNameNode(<<"f">>), TextNode(<<" ">>),
               ParamsNode(<<LeafNode("i4", <<"1", "2">>)>>)>>),
     CallDoc(<<ParamsNode(<<>>)>>),
     ResponseDoc(<<MethodNameNode(<<"f">>), ParamsNode(<<>>)>>)}

FaultCodeName == <<"f", "a", "u", "l", "t", "C", "o", "d", "e">>

FaultStringName == <<"f", "a", "u", "l", "t", "S", "t", "r", "i", "n", "g">>

FaultMemberForms ==
    {MemberNode(FaultCodeName, LeafNode("int", <<"4">>)),
     MemberNode(FaultCodeName, LeafNode("int", <<"7">>)),
     MemberNode(FaultCodeName, LeafNode("string", <<"4">>)),
     MemberNode(FaultStringName, LeafNode("string", <<"m">>)),
     MemberNode(FaultStringName, LeafNode("int", <<"4">>)),
     MemberNode(<<"e", "x", "t", "r", "a">>, LeafNode("int", <<"1">>))}

FaultDoc(children) == ResponseDoc(<<Elem("fault", children)>>)

PeerResponseDocs ==
    {ResponseDoc(<<ParamsNode(<<v>>)>>) :
        v \in GoodLeafNodes \cup UntaggedNodes \cup BadLeafNodes \cup ContainerNodes} \cup
    {FaultDoc(<<StructNode(ms)>>) : ms \in SeqsUpTo(FaultMemberForms, MaxFaultMembers)} \cup
    {FaultDoc(<<v>>) : v \in GoodLeafNodes \cup UntaggedNodes \cup BadLeafNodes} \cup
    {FaultDoc(<<ArrayNode(<<LeafNode("int", <<"4">>), LeafNode("string", <<"m">>)>>)>>),
     FaultDoc(<<>>), ResponseDoc(<<>>),
     CallDoc(<<ParamsNode(<<>>)>>)} \cup
    {FaultDoc(<<StructNode(<<MemberNode(FaultCodeName, LeafNode("int", <<"4">>)),
                             MemberNode(FaultStringName, u)>>)>>) : u \in UntaggedNodes}

RECURSIVE PeerWrite(_), PeerWriteAll(_)

PeerWriteAll(nodes) ==
    IF nodes = <<>> THEN <<>> ELSE PeerWrite(Head(nodes)) \o PeerWriteAll(Tail(nodes))

PeerWrite(node) ==
    IF node.k = "text" THEN <<Text(escape(node.ch))>>
    ELSE IF node.tag = "" THEN <<Decl>> \o PeerWriteAll(node.ch)
    ELSE <<Start(node.tag)>> \o PeerWriteAll(node.ch) \o <<End(node.tag)>>

(***************************************************************************)
(* The wire codec as a state machine: a message is written and read back,  *)
(* or a peer's document arrives and is read.                               *)
(***************************************************************************)
PeerDoc(tree) == [k |-> "doc", tree |-> tree]

InitWire ==
    /\ pc = "idle"
    /\ msg = NoValue
    /\ wire = <<>>
    /\ res = NoValue

WriteRequest ==
    /\ pc = "idle"
    /\ \E r \in Requests :
          /\ msg' = r
          /\ wire' = Request_write_xml(r)
    /\ pc' = "call_written"
    /\ res' = NoValue

WriteResponse ==
    /\ pc = "idle"
    /\ \E r \in Responses :
          /\ msg' = r
          /\ wire' = Response_write_xml(r)
    /\ pc' = "response_written"
    /\ res' = NoValue

ReceiveCall ==
    /\ pc = "idle"
    /\ \E d \in PeerCallDocs :
          /\ msg' = PeerDoc(d)
          /\ wire' = PeerWrite(d)
    /\ pc' = "call_written"
    /\ res' = NoValue

ReceiveResponse ==
    /\ pc = "idle"
    /\ \E d \in PeerResponseDocs :
          /\ msg' = PeerDoc(d)
          /\ wire' = PeerWrite(d)
    /\ pc' = "response_written"
    /\ res' = NoValue

ReadRequest ==
    /\ pc = "call_written"
    /\ res' = Request_read_xml(wire)
    /\ pc' = "call_read"
    /\ UNCHANGED <<msg, wire>>

ReadResponse ==
    /\ pc = "response_written"
    /\ res' = Response_read_xml(wire)
    /\ pc' = "response_read"
    /\ UNCHANGED <<msg, wire>>

Drop ==
    /\ pc \in {"call_read", "response_read"}
    /\ pc' = "idle"
    /\ msg' = NoValue
    /\ wire' = <<>>
    /\ res' = NoValue

NextWire ==
    \/ WriteRequest
    \/ WriteResponse
    \/ ReceiveCall
    \/ ReceiveResponse
    \/ ReadRequest
    \/ ReadResponse
    \/ Drop

SpecWire == InitWire /\ [][NextWire]_vars


(***************************************************************************)
(* Properties of the wire codec.                                           *)
(***************************************************************************)
MessageEq(a, b) ==
    /\ a.k = b.k
    /\ CASE a.k = "Request" -> a.name = b.name /\ ParamsEq(a.params, b.params)
         [] a.k = "Success" -> ParamsEq(a.params, b.params)
         [] a.k = "Failure" -> a.code = b.code /\ a.message = b.message

OwnMessageRead == pc \in {"call_read", "response_read"} /\ msg.k # "doc"

PeerCallRead == pc = "call_read" /\ msg.k = "doc"

PeerResponseRead == pc = "response_read" /\ msg.k = "doc"

RECURSIVE HasNaN(_)
HasNaN(v) ==
    CASE v.k = "Double" -> v.v.cls = "nan"
      [] v.k = "Array"  -> \E i \in 1..Len(v.v) : HasNaN(v.v[i])
      [] v.k = "Struct" -> \E i \in 1..Len(v.v) : HasNaN(v.v[i][2])
      [] OTHER          -> FALSE

CallWith(value) == CallDoc(<<MethodNameNode(<<"f">>), ParamsNode(<<value>>)>>)

CallResult(value) == Ok(Request(<<"f">>, <<value>>))

\* C4 as stated: a <value> without element child decodes to the String of its text,
\* "" when it has no children at all, as a param, as an array element, as a struct
\* member and inside a fault.
C4_UntaggedIsString ==
    \A u \in UntaggedNodes :
        LET s == VString(literal_text_in_node(u))
        IN  /\ PeerCallRead /\ msg.tree = CallWith(u) => res = CallResult(s)
            /\ PeerCallRead /\ msg.tree = CallWith(ArrayNode(<<u>>))
                   => res = CallResult(VArray(<<s>>))
            /\ PeerCallRead /\ msg.tree = CallWith(StructNode(<<MemberNode(<<"a">>, u)>>))
                   => res = CallResult(VStruct(<<<<<<"a">>, s>>>>))
            /\ PeerResponseRead /\ msg.tree = ResponseDoc(<<ParamsNode(<<u>>)>>)
                   => res = Ok(Success(<<s>>))
            /\ PeerResponseRead
                   /\ msg.tree = FaultDoc(<<StructNode(<<
                                     MemberNode(FaultCodeName, LeafNode("int", <<"4">>)),
                                     MemberNode(FaultStringName, u)>>)>>)
                   => res = Ok(Failure(I(4), s.v))

(***************************************************************************)
(* Values that do not decode.                                              *)
(***************************************************************************)
RECURSIVE Offending(_)
\* a <value> with an unknown type tag or with leaf text that does not parse, here or
\* anywhere below
Offending(node) ==
    /\ node.k = "elem"
    /\ \/ /\ node.tag = "value"
          /\ LET e == FindFirst(node.ch, is_element)
             IN  /\ e # 0
                 /\ node.ch[e].tag \notin {"array", "struct"}
                 /\ ~Value_read_xml(node).ok
       \/ \E i \in 1..Len(node.ch) : Offending(node.ch[i])

\* C5 as stated: a document holding, at any depth, a <value> with an unknown type tag
\* or unparsable leaf text is never read into a Request or Response: read_xml fails.
C5_FailFast ==
    (PeerCallRead \/ PeerResponseRead) /\ Offending(msg.tree) => ~res.ok

(***************************************************************************)
(* Faults.                                                                 *)
(***************************************************************************)
HasFault(tree) ==
    /\ tree.ch # <<>>
    /\ tree.ch[1].tag = "methodResponse"
    /\ \E i \in 1..Len(tree.ch[1].ch) : has_tag_name(tree.ch[1].ch[i], "fault")

\* the value the fault element holds, decoded on its own
FaultValue(tree) ==
    LET root == tree.ch[1]
        f    == root.ch[FindFirst(root.ch, LAMBDA c : has_tag_name(c, "fault"))]
    IN  IF f.ch = <<>> THEN Err("none") ELSE Value_read_xml(f.ch[1])

LastNamed(members, name) ==
    LET S == {i \in 1..Len(members) : members[i][1] = name}
    IN  IF S = {} THEN 0 ELSE CHOOSE i \in S : \A j \in S : j <= i

\* C6 as stated: a fault is read into Failure(code, message) only when its value is a
\* Struct of exactly the two members faultCode (Int) and faultString (String); any
\* other shape, an additional or a duplicated member included, is a decode error.
C6_ExactlyTwoMembers ==
    PeerResponseRead /\ HasFault(msg.tree) =>
        LET v == FaultValue(msg.tree)
        IN  res.ok <=>
                /\ v.ok
                /\ v.val.k = "Struct"
                /\ Len(v.val.v) = 2
                /\ \E i, j \in 1..2 :
                      /\ v.val.v[i][1] = FaultCodeName /\ v.val.v[i][2].k = "Int"
                      /\ v.val.v[j][1] = FaultStringName /\ v.val.v[j][2].k = "String"

\* C6, amended: a fault is read into Failure(code, message) exactly when its value
\* decodes to a Struct whose last member named faultCode is an Int and whose last
\* member named faultString is a String; these two give code and message, every other
\* member is ignored; a non-Struct value, a missing member or a member of the wrong
\* type is a decode error.
C6_FaultShape ==
    PeerResponseRead /\ HasFault(msg.tree) =>
        LET v == FaultValue(msg.tree)
        IN  IF v.ok /\ v.val.k = "Struct"
            THEN LET c == LastNamed(v.val.v, FaultCodeName)
                     m == LastNamed(v.val.v, FaultStringName)
                 IN  IF c # 0 /\ m # 0 /\ v.val.v[c][2].k = "Int" /\ v.val.v[m][2].k = "String"
                     THEN res = Ok(Failure(v.val.v[c][2].v, v.val.v[m][2].v))
                     ELSE ~res.ok
            ELSE ~res.ok

C6_Witness ==
    /\ PeerResponseRead
    /\ msg.tree = FaultDoc(<<StructNode(<<
                      MemberNode(FaultCodeName, LeafNode("int", <<"4">>)),
                      MemberNode(FaultCodeName, LeafNode("int", <<"7">>)),
                      MemberNode(FaultStringName, LeafNode("string", <<"m">>))>>)>>)
    /\ res = Ok(Failure(I(7), <<"m">>))

(***************************************************************************)
(* Struct members.                                                         *)
(***************************************************************************)
RECURSIVE CountMembers(_), CountStarts(_, _)

\* the (name, value) pairs of a Value, at every depth
CountMembers(v) ==
    CASE v.k = "Array"  -> IF v.v = <<>> THEN 0
                           ELSE CountMembers(Head(v.v)) + CountMembers(VArray(Tail(v.v)))
      [] v.k = "Struct" -> IF v.v = <<>> THEN 0
                           ELSE 1 + CountMembers(Head(v.v)[2]) + CountMembers(VStruct(Tail(v.v)))
      [] OTHER          -> 0

CountStarts(tokens, tag) ==
    IF tokens = <<>> THEN 0
    ELSE (IF Head(tokens) = Start(tag) THEN 1 ELSE 0) + CountStarts(Tail(tokens), tag)

\* C7 as stated: a <struct> whose <member> children each hold a name and a value is
\* read into one (name, value) pair per <member> child, in document order and with
\* equal names kept apart, and a Struct is written as one <member> per pair.
C7_OnePairPerMember ==
    /\ PeerCallRead =>
           \A ms \in SeqsUpTo(FullMemberForms, MaxKids) :
               msg.tree = CallWith(StructNode(ms)) =>
                   /\ res.ok
                   /\ Len(res.val.params) = 1
                   /\ res.val.params[1].k = "Struct"
                   /\ Len(res.val.params[1].v) = Len(ms)
                   /\ \A i \in 1..Len(ms) :
                          /\ FindFirst(ms[i].ch, LAMBDA c : has_tag_name(c, "name")) # 0
                          /\ res.val.params[1].v[i][1] =
                                 literal_text_in_node(
                                     ms[i].ch[FindFirst(ms[i].ch,
                                                        LAMBDA c : has_tag_name(c, "name"))])
    /\ pc = "call_written" /\ msg.k = "Request" =>
           CountStarts(wire, "member") = CountMembers(VArray(msg.params))

(***************************************************************************)
(* The typed layer (src/xmlfmt).  Its Value keeps a Struct as a HashMap,   *)
(* here the set of its (name, value) pairs.                                *)
(***************************************************************************)
XInt(b) == [k |-> "Int", v |-> b]

XBool(b) == [k |-> "Bool", v |-> b]

XString(s) == [k |-> "String", v |-> s]

XArray(items) == [k |-> "Array", v |-> items]

XStruct(members) == [k |-> "Struct", v |-> members]

XDouble(f) == [k |-> "Double", v |-> f]

XDateTime(s) == [k |-> "DateTime", v |-> s]

XBase64(bytes) == [k |-> "Base64", v |-> bytes]

\* application types: an integer width, bool, String, (), Option<T>, Vec<T>, a tuple
Ty(kind, of) == [k |-> kind, of |-> of]

TInt(w) == Ty(w, <<>>)

TBool == Ty("bool", <<>>)

TString == Ty("String", <<>>)

TUnit == Ty("unit", <<>>)

TOption(t) == Ty("Option", <<t>>)

TVec(t) == Ty("Vec", <<t>>)

TTuple(ts) == Ty("tuple", ts)

TChar == Ty("char", <<>>)

TF64 == Ty("f64", <<>>)

\* &[u8] as serde_bytes gives it to serialize_bytes
TBytes == Ty("bytes", <<>>)

\* HashMap<K, V>; a map is the set of its (key, value) entries
THashMap(kty, vty) == Ty("HashMap", <<kty, vty>>)

\* a variant: its name, its kind, and the types of its elements or its (name, type)
\* fields; a value of an enum is <<variant name, payload>>
Variant(name, kind, of) == [k |-> kind, of |-> of, name |-> name]

TEnum(variants) == Ty("enum", variants)

Unit == "unit"

(***************************************************************************)
(* Serializer (src/xmlfmt/ser.rs): an application value x of type ty is    *)
(* an integer, a boolean, a text, Unit, <<>> or <<y>> for an Option, or    *)
(* the sequence of its elements.                                           *)
(***************************************************************************)
\* an integer serializer that sends a u32 as Int whenever it fits 32 signed bits
serialize_integer_U32AsInt(w, v) ==
    IF w \in {"i8", "i16", "i32", "u8", "u16"} \/ (w = "u32" /\ InRange(v, "i32"))
    THEN XInt(v)
    ELSE XString(to_string(v))

\* serialize_i8 .. serialize_u64
serialize_integer(w, v) ==
    IF w \in {"i8", "i16", "i32", "u8", "u16"} THEN XInt(v) ELSE XString(to_string(v))

\* bool::to_string
bool_to_string(b) == IF b THEN <<"t", "r", "u", "e">> ELSE <<"f", "a", "l", "s", "e">>

\* a key serializer that takes the text of any Value it can name, an Array's too
key_text_AnyValue(value) ==
    CASE value.k = "Bool"   -> Ok(bool_to_string(value.v))
      [] value.k = "Int"    -> Ok(to_string(value.v))
      [] value.k = "Double" -> Ok(f64_to_string(value.v))
      [] value.k = "String" -> Ok(value.v)
      [] OTHER              -> Ok(<<"?">>)

\* SerializeMap::serialize_key on the Value the key was serialized to
key_text(value) ==
    CASE value.k = "Bool"   -> Ok(bool_to_string(value.v))
      [] value.k = "Int"    -> Ok(to_string(value.v))
      [] value.k = "Double" -> Ok(f64_to_string(value.v))
      [] value.k = "String" -> Ok(value.v)
      [] OTHER              -> Err("UnsupportedData")

RECURSIVE serialize(_, _), serialize_elements(_, _), serialize_fields(_, _),
          serialize_entries(_, _, _)

\* SerializeVec::serialize_element for each element in turn, stopping at the first error
serialize_elements(tys, xs) ==
    IF xs = <<>> THEN Ok(<<>>)
    ELSE LET r == serialize(Head(tys), Head(xs))
         IN  IF ~r.ok THEN r
             ELSE LET rest == serialize_elements(Tail(tys), Tail(xs))
                  IN  IF ~rest.ok THEN rest ELSE Ok(<<r.val>> \o rest.val)

\* SerializeStruct::serialize_field for each (name, type) of fields in turn
serialize_fields(fields, xs) ==
    IF xs = <<>> THEN Ok({})
    ELSE LET r == serialize(Head(fields)[2], Head(xs))
         IN  IF ~r.ok THEN r
             ELSE LET rest == serialize_fields(Tail(fields), Tail(xs))
                  IN  IF ~rest.ok THEN rest
                      ELSE Ok({m \in rest.val : m[1] # Head(fields)[1]} \cup
                              {<<Head(fields)[1], r.val>>})

\* SerializeMap::serialize_key and serialize_value for each entry; the keys of one map
\* are of one type, so no two of them have the same text
serialize_entries(kty, vty, entries) ==
    IF entries = {} THEN Ok({})
    ELSE LET e == CHOOSE e \in entries : TRUE
             k == serialize(kty, e[1])
             n == IF k.ok THEN key_text(k.val) ELSE k
         IN  IF ~n.ok THEN n
             ELSE LET v == serialize(vty, e[2])
                  IN  IF ~v.ok THEN v
                      ELSE LET rest == serialize_entries(kty, vty, entries \ {e})
                           IN  IF ~rest.ok THEN rest
                               ELSE Ok(rest.val \cup {<<n.val, v.val>>})

\* a variant written as its content alone
variant_struct_Bare(name, content) == content

\* a variant's one-member Struct
variant_struct(name, content) ==
    IF content.ok THEN Ok(XStruct({<<name, content.val>>})) ELSE content

array_of(items) == IF items.ok THEN Ok(XArray(items.val)) ELSE items

struct_of(members) == IF members.ok THEN Ok(XStruct(members.val)) ELSE members

VariantOf(ty, name) == ty.of[CHOOSE i \in 1..Len(ty.of) : ty.of[i].name = name]

serialize(ty, x) ==
    CASE ty.k \in IntTypes -> Ok(serialize_integer(ty.k, x))
      [] ty.k = "bool"     -> Ok(XBool(x))
      [] ty.k = "char"     -> Ok(XString(<<x>>))
      [] ty.k = "String"   -> Ok(XString(x))
      [] ty.k = "f64"      -> Ok(XDouble(x))
      [] ty.k = "bytes"    -> Ok(XBase64(x))
      [] ty.k = "unit"     -> Ok(XStruct({}))
      [] ty.k = "Option"   ->
             IF x = <<>> THEN Ok(XArray(<<>>))
             ELSE array_of(serialize_elements(<<ty.of[1]>>, x))
      [] ty.k = "Vec"      ->
             array_of(serialize_elements([i \in 1..Len(x) |-> ty.of[1]], x))
      [] ty.k = "tuple"    -> array_of(serialize_elements(ty.of, x))
      [] ty.k = "HashMap"  -> struct_of(serialize_entries(ty.of[1], ty.of[2], x))
      [] ty.k = "enum"     ->
             LET variant == VariantOf(ty, x[1])
             IN  CASE variant.k = "unit_variant" ->
                          variant_struct(variant.name, Ok(XStruct({})))
                   [] variant.k = "newtype_variant" ->
                          variant_struct(variant.name, serialize(variant.of[1], x[2]))
                   [] variant.k = "tuple_variant" ->
                          variant_struct(variant.name,
                                         array_of(serialize_elements(variant.of, x[2])))
                   [] variant.k = "struct_variant" ->
                          variant_struct(variant.name,
                                         struct_of(serialize_fields(variant.of, x[2])))

(***************************************************************************)
(* Deserializer (src/xmlfmt/de.rs) driven by the Deserialize               *)
(* implementations of the target type.                                     *)
(***************************************************************************)
\* a decoder of integers that takes an Int only
handle_integer_IntOnly(value, ty) ==
    IF value.k = "Int" THEN Ok(from_i32(value.v, ty)) ELSE Err("invalid value")

handle_integer(value, ty) ==
    CASE value.k = "Int"    -> Ok(from_i32(value.v, ty))
      [] value.k = "String" -> LET r == from_str(value.v, ty)
                               IN  IF r.ok THEN r ELSE Err("invalid value")
      [] OTHER              -> Err("invalid value")

deserialize_bool(value) ==
    CASE value.k = "Bool"   -> Ok(value.v)
      [] value.k = "String" ->
             IF value.v = <<"t", "r", "u", "e">> THEN Ok(TRUE)
             ELSE IF value.v = <<"f", "a", "l", "s", "e">> THEN Ok(FALSE)
             ELSE Err("invalid value")
      [] OTHER              -> Err("invalid value")

\* a decoder of strings that takes what deserialize_any gives to visit_string
deserialize_string_AsAny(value) ==
    IF value.k \in {"String", "DateTime"} THEN Ok(value.v) ELSE Err("invalid value")

deserialize_string(value) ==
    IF value.k = "String" THEN Ok(value.v) ELSE Err("invalid value")

deserialize_unit(value) ==
    IF value.k = "Struct" /\ value.v = {} THEN Ok(Unit) ELSE Err("invalid value")

\* the bytes of a character in UTF-8; the characters outside ASCII that the model
\* uses are written by their names
Utf8Len(c) ==
    CASE c = "e-acute"  -> 2
      [] c = "euro"     -> 3
      [] OTHER          -> 1

RECURSIVE str_len(_)
\* String::len, the length in bytes
str_len(text) == IF text = <<>> THEN 0 ELSE Utf8Len(Head(text)) + str_len(Tail(text))

deserialize_char(value) ==
    IF value.k # "String" THEN Err("invalid value")
    ELSE IF str_len(value.v) # 1 THEN Err("string with a single character")
    ELSE Ok(value.v[1])

\* serde::de::Error::invalid_length: "invalid length {len}, expected {exp}"
invalid_length(len, exp) == Err(<<"invalid length ", ToString(len), ", expected ">> \o exp)

\* the Expected of serde's visitor of a tuple of k elements
tuple_of_size(k) == <<"a tuple of size ", ToString(k)>>

\* the Expected of a derived visitor of a variant with k elements
variant_with(name, k) == <<"variant ", name, " with ", ToString(k), " elements">>

RECURSIVE deserialize(_, _), next_elements(_, _), deserialize_option(_, _),
          visit_seq(_, _, _), visit_map(_, _), next_entries(_, _, _),
          deserialize_enum(_, _), variant_access(_, _)

\* SeqAccess::next_element_seed for each of tys in turn, stopping at the first error
next_elements(tys, items) ==
    IF tys = <<>> THEN Ok(<<>>)
    ELSE LET r == deserialize(Head(tys), Head(items))
         IN  IF ~r.ok THEN r
             ELSE LET rest == next_elements(Tail(tys), Tail(items))
                  IN  IF ~rest.ok THEN rest ELSE Ok(<<r.val>> \o rest.val)

\* an option decoder that pops the last element and does not look at the rest
deserialize_option_Last(ty, value) ==
    IF value.k # "Array" THEN Err("invalid value")
    ELSE IF value.v = <<>> THEN Ok(<<>>)
    ELSE LET r == deserialize(ty.of[1], value.v[Len(value.v)])
         IN  IF r.ok THEN Ok(<<r.val>>) ELSE r

deserialize_option(ty, value) ==
    IF value.k # "Array" THEN Err("invalid value")
    ELSE IF Len(value.v) > 1 THEN Err("array with a single element")
    ELSE IF value.v = <<>> THEN Ok(<<>>)
    ELSE LET r == deserialize(ty.of[1], value.v[Len(value.v)])
         IN  IF r.ok THEN Ok(<<r.val>>) ELSE r

\* deserialize_any of an Array for a visitor of fixed arity (a tuple, the elements of
\* a tuple variant, the fields of a struct variant in order): the visitor takes its
\* elements one by one and fails at the first that is missing; deserialize_any fails
\* if any element remains
visit_seq(tys, value, expecting) ==
    IF value.k # "Array" THEN Err("invalid type")
    ELSE IF Len(value.v) < Len(tys)
    THEN LET r == next_elements(SubSeq(tys, 1, Len(value.v)), value.v)
         IN  IF ~r.ok THEN r ELSE invalid_length(Len(value.v), expecting)
    ELSE LET r == next_elements(tys, SubSeq(value.v, 1, Len(tys)))
         IN  IF ~r.ok THEN r
             ELSE IF Len(value.v) # Len(tys)
             THEN invalid_length(Len(value.v), <<"fewer elements in array">>)
             ELSE r

\* the derived visitor of fields, on the members of a Struct: each field is read from
\* the member of its name, a member of another name is ignored, and a field without
\* member is an error
visit_map(fields, members) ==
    IF fields = <<>> THEN Ok(<<>>)
    ELSE LET field == Head(fields)
         IN  IF ~\E m \in members : m[1] = field[1] THEN Err("missing field")
             ELSE LET m == CHOOSE m \in members : m[1] = field[1]
                      r == deserialize(field[2], m[2])
                  IN  IF ~r.ok THEN r
                      ELSE LET rest == visit_map(Tail(fields), members)
                           IN  IF ~rest.ok THEN rest ELSE Ok(<<r.val>> \o rest.val)

\* MapAccess for MapDeserializer, driven by the visitor of HashMap<K, V>:
\* next_key_seed reads the key from Value::String(name), next_value_seed the value
next_entries(kty, vty, members) ==
    IF members = {} THEN Ok({})
    ELSE LET m == CHOOSE m \in members : TRUE
             k == deserialize(kty, XString(m[1]))
         IN  IF ~k.ok THEN k
             ELSE LET v == deserialize(vty, m[2])
                  IN  IF ~v.ok THEN v
                      ELSE LET rest == next_entries(kty, vty, members \ {m})
                           IN  IF ~rest.ok THEN rest
                               ELSE Ok({e \in rest.val : e[1] # k.val} \cup
                                       {<<k.val, v.val>>})

\* VariantAccess::unit_variant
unit_variant(value) ==
    IF value.k = "Struct" /\ value.v = {} THEN Ok(Unit) ELSE Err("empty map")

\* VariantAccess for Value: the payload of the variant from the member's value
variant_access(variant, value) ==
    CASE variant.k = "unit_variant"    -> unit_variant(value)
      [] variant.k = "newtype_variant" -> deserialize(variant.of[1], value)
      [] variant.k = "tuple_variant"   ->
             visit_seq(variant.of, value, variant_with(variant.name, Len(variant.of)))
      [] variant.k = "struct_variant"  ->
             IF value.k = "Struct" THEN visit_map(variant.of, value.v)
             ELSE visit_seq([i \in 1..Len(variant.of) |-> variant.of[i][2]], value,
                            variant_with(variant.name, Len(variant.of)))

\* an enum decoder that takes the variant from some member of the Struct
deserialize_enum_AnyMember(ty, value) ==
    IF value.k # "Struct" \/ value.v = {} THEN Err("map with a single key")
    ELSE LET member == CHOOSE m \in value.v : TRUE
         IN  IF ~\E i \in 1..Len(ty.of) : ty.of[i].name = member[1]
             THEN Err("unknown variant")
             ELSE LET payload == variant_access(VariantOf(ty, member[1]), member[2])
                  IN  IF payload.ok THEN Ok(<<member[1], payload.val>>) ELSE payload

\* deserialize_enum and EnumAccess::variant_seed: the only member of the Struct names
\* the variant, its value holds the payload
deserialize_enum(ty, value) ==
    IF value.k # "Struct" \/ Cardinality(value.v) # 1 THEN Err("map with a single key")
    ELSE LET member == CHOOSE m \in value.v : TRUE
         IN  IF ~\E i \in 1..Len(ty.of) : ty.of[i].name = member[1]
             THEN Err("unknown variant")
             ELSE LET payload == variant_access(VariantOf(ty, member[1]), member[2])
                  IN  IF payload.ok THEN Ok(<<member[1], payload.val>>) ELSE payload

deserialize(ty, value) ==
    CASE ty.k \in IntTypes -> handle_integer(value, ty.k)
      [] ty.k = "bool"     -> deserialize_bool(value)
      [] ty.k = "char"     -> deserialize_char(value)
      [] ty.k = "String"   -> deserialize_string(value)
      [] ty.k = "unit"     -> deserialize_unit(value)
      [] ty.k = "Option"   -> deserialize_option(ty, value)
      [] ty.k = "Vec"      ->
             IF value.k # "Array" THEN Err("invalid type")
             ELSE next_elements([i \in 1..Len(value.v) |-> ty.of[1]], value.v)
      [] ty.k = "tuple"    -> visit_seq(ty.of, value, tuple_of_size(Len(ty.of)))
      [] ty.k = "HashMap"  ->
             IF value.k # "Struct" THEN Err("invalid type")
             ELSE next_entries(ty.of[1], ty.of[2], value.v)
      [] ty.k = "enum"     -> deserialize_enum(ty, value)

(***************************************************************************)
(* into_params / from_params (src/xmlfmt/mod.rs) and the typed parsers     *)
(* call / response (src/xmlfmt/parse.rs), which take what call_value and   *)
(* response_value made of the document.                                    *)
(***************************************************************************)
into_params(ty, v) ==
    LET data == serialize(ty, v)
    IN  IF ~data.ok THEN data
        ELSE IF data.val.k = "Array" THEN Ok(data.val.v) ELSE Ok(<<data.val>>)

\* from_params without the special case of a single param
from_params_AlwaysArray(ty, params) == deserialize(ty, XArray(params))

from_params(ty, params) ==
    LET data == IF Len(params) = 1 THEN params[Len(params)] ELSE XArray(params)
    IN  deserialize(ty, data)

CallValue(name, params) == [k |-> "CallValue", name |-> name, params |-> params]

Call(name, data) == [k |-> "Call", name |-> name, data |-> data]

ResponseValueSuccess(params) == [k |-> "Success", params |-> params]

ResponseValueFault(code, message) == [k |-> "Fault", code |-> code, message |-> message]

ResponseSuccess(data) == [k |-> "Success", data |-> data]

call(ty, parsed) ==
    IF ~parsed.ok THEN parsed
    ELSE LET params == parsed.val.params
             data   == IF Len(params) = 1 THEN params[Len(params)] ELSE XArray(params)
             d      == deserialize(ty, data)
         IN  IF d.ok THEN Ok(Call(parsed.val.name, d.val)) ELSE d

response(ty, parsed) ==
    IF ~parsed.ok THEN parsed
    ELSE IF parsed.val.k = "Success"
    THEN LET params == parsed.val.params
             data   == IF Len(params) = 1 THEN params[Len(params)] ELSE XArray(params)
             d      == deserialize(ty, data)
         IN  IF d.ok THEN Ok(ResponseSuccess(d.val)) ELSE d
    ELSE Ok(ResponseValueFault(parsed.val.code, parsed.val.message))

(***************************************************************************)
(* Application values and peer Values the typed layer is run on.           *)
(***************************************************************************)
MaxSeqLen == 3

MaxParams == 3

I32Max == IntMax("i32")

I32Min == IntMin("i32")

\* numbers next to the limits of the widths
BeyondI32Max == [neg |-> FALSE, mag |-> <<3648, 4748, 21>>]

BelowI32Min == [neg |-> TRUE, mag |-> <<3649, 4748, 21>>]

BeyondI64Max == [neg |-> FALSE, mag |-> <<5808, 5477, 368, 3372, 922>>]

BelowI64Min == [neg |-> TRUE, mag |-> <<5809, 5477, 368, 3372, 922>>]

FourPointTwoBillion == [neg |-> FALSE, mag |-> <<0, 0, 42>>]

MinusTwoBillion == [neg |-> TRUE, mag |-> <<0, 0, 20>>]

Numbers ==
    {I(n) : n \in {-32769, -32768, -129, -128, -1, 0, 1, 5, 127, 128, 200, 255, 256, 300,
                   32767, 32768, 40000, 42000, 65535, 65536}} \cup
    {I32Max, I32Min, BeyondI32Max, BelowI32Min, Pow2_32, IntMax("u32"),
     IntMax("i64"), IntMin("i64"), BeyondI64Max, BelowI64Min, Pow2_64, IntMax("u64"),
     FourPointTwoBillion, MinusTwoBillion}

IntValues(w) == {n \in Numbers : InRange(n, w)}

MaxEntries == 2

\* the enum of the tests: Foo, Bar(i32), Baz(bool, String), Qux { alpha: i32, beta: Vec<bool> }
Foo == <<"F", "o", "o">>

Bar == <<"B", "a", "r">>

Baz == <<"B", "a", "z">>

Qux == <<"Q", "u", "x">>

alpha == <<"a", "l", "p", "h", "a">>

beta == <<"b", "e", "t", "a">>

Helper ==
    TEnum(<<Variant(Foo, "unit_variant", <<>>),
            Variant(Bar, "newtype_variant", <<TInt("i32")>>),
            Variant(Baz, "tuple_variant", <<TBool, TString>>),
            Variant(Qux, "struct_variant", <<<<alpha, TInt("i32")>>, <<beta, TVec(TBool)>>>>)>>)

\* characters of one, two and three bytes
Chars == {"A", " ", "e-acute", "euro"}

RECURSIVE Few(_), TupleValues(_)
\* the maps of at most MaxEntries entries with keys and values of the given ones
MapsOf(keys, values) ==
    {m \in SUBSET (keys \X values) :
        /\ Cardinality(m) <= MaxEntries
        /\ \A e1, e2 \in m : e1[1] = e2[1] => e1 = e2}

\* the values of a variant
VariantValues(variant) ==
    CASE variant.k = "unit_variant"    -> {<<variant.name, Unit>>}
      [] variant.k = "newtype_variant" -> {<<variant.name, x>> : x \in Few(variant.of[1])}
      [] variant.k = "tuple_variant"   ->
             {<<variant.name, t>> : t \in TupleValues(variant.of)}
      [] variant.k = "struct_variant"  ->
             {<<variant.name, t>> :
                 t \in TupleValues([i \in 1..Len(variant.of) |-> variant.of[i][2]])}

\* a few values of a type, to build sequences from
Few(ty) ==
    CASE ty.k \in IntTypes -> {I(5), IntMax(ty.k)}
      [] ty.k = "bool"     -> {TRUE}
      [] ty.k = "char"     -> {"A", "e-acute"}
      [] ty.k = "String"   -> {<<>>, <<"a">>}
      [] ty.k = "unit"     -> {Unit}
      [] ty.k = "Option"   -> {<<>>} \cup {<<x>> : x \in Few(ty.of[1])}
      [] ty.k = "Vec"      -> SeqsUpTo(Few(ty.of[1]), 2)
      [] ty.k = "HashMap"  -> {m \in MapsOf(Few(ty.of[1]), Few(ty.of[2])) : Cardinality(m) <= 1}

TupleValues(tys) ==
    IF tys = <<>> THEN {<<>>}
    ELSE {<<x>> \o rest : x \in Few(Head(tys)), rest \in TupleValues(Tail(tys))}

\* the keys the maps are built from
KeysOf(ty) ==
    CASE ty.k = "bool" -> {TRUE, FALSE}
      [] ty.k = "char" -> Chars
      [] OTHER         -> Few(ty)

ValuesOf(ty) ==
    CASE ty.k \in IntTypes -> IntValues(ty.k)
      [] ty.k = "bool"     -> {TRUE, FALSE}
      [] ty.k = "char"     -> Chars
      [] ty.k = "String"   -> {<<>>, <<"a">>, <<"4", "2">>, <<"t", "r", "u", "e">>}
      [] ty.k = "f64"      -> {"0.0", "-1.5", "NaN"}
      [] ty.k = "bytes"    -> {<<>>, <<0, 255>>}
      [] ty.k = "unit"     -> {Unit}
      [] ty.k = "Option"   -> {<<>>} \cup {<<x>> : x \in Few(ty.of[1])}
      [] ty.k = "Vec"      -> SeqsUpTo(Few(ty.of[1]), MaxSeqLen)
      [] ty.k = "tuple"    -> TupleValues(ty.of)
      [] ty.k = "HashMap"  -> MapsOf(KeysOf(ty.of[1]), Few(ty.of[2]))
      [] ty.k = "enum"     ->
             UNION {VariantValues(ty.of[i]) : i \in 1..Len(ty.of)}

\* maps with keys that have a text
KeyedMaps ==
    {THashMap(TBool, TInt("i32")), THashMap(TInt("i32"), TString),
     THashMap(TInt("u64"), TBool), THashMap(TChar, TInt("i32")),
     THashMap(TString, TVec(TInt("i32")))}

\* maps with keys that have none, and values that hold such a map
UnkeyedMaps ==
    {THashMap(TOption(TInt("i32")), TInt("i32")), THashMap(TVec(TInt("i32")), TBool),
     THashMap(TUnit, TInt("i32"))}

HoldingUnkeyedMaps ==
    {TVec(THashMap(TOption(TInt("i32")), TInt("i32"))),
     TOption(THashMap(TUnit, TInt("i32"))),
     THashMap(TString, THashMap(TOption(TInt("i32")), TInt("i32"))),
     TTuple(<<TInt("i32"), THashMap(TVec(TInt("i32")), TBool)>>)}

AppTypes ==
    {TInt(w) : w \in IntTypes} \cup
    {TBool, TString, TUnit, TChar, Helper,
     TOption(TInt("i32")), TOption(TString), TOption(TVec(TInt("i32"))),
     TOption(TOption(TInt("i32"))),
     TVec(TInt("i32")), TVec(TString), TVec(TInt("u32")), TVec(TVec(TInt("i32"))),
     TTuple(<<TInt("i32")>>), TTuple(<<TInt("i32"), TString>>),
     TTuple(<<TInt("i32"), TBool, TString>>), TTuple(<<TVec(TInt("i32"))>>)} \cup
    KeyedMaps \cup UnkeyedMaps \cup HoldingUnkeyedMaps

Texts ==
    {to_string(n) : n \in Numbers} \cup
    {<<>>, <<"-">>, <<"+">>, <<"+", "5">>, <<"0", "0", "7">>, <<"-", "0">>, <<"-", "0", "5">>,
     <<"1", " ">>, <<" ", "1">>, <<"x">>, <<"1", ".", "0">>, <<"0", "x", "1", "0">>,
     <<"1", "-">>, <<"-", "-", "1">>, <<"+", "-", "1">>}

\* Values a peer may send where an integer is wanted
IntSources ==
    {XInt(n) : n \in IntValues("i32")} \cup
    {XString(t) : t \in Texts} \cup
    {XBool(TRUE), XArray(<<XInt(I(1))>>), XStruct({})}

\* Values a peer may send where an option, a tuple, a char, a map or an enum is wanted
PeerValues ==
    {XArray(<<>>), XArray(<<XInt(I(5))>>), XArray(<<XString(<<"a">>)>>),
     XArray(<<XInt(I(5)), XInt(I(6))>>), XArray(<<XInt(I(5)), XInt(I(6)), XInt(I(7))>>),
     XArray(<<XArray(<<>>)>>), XArray(<<XArray(<<XInt(I(5))>>)>>),
     XArray(<<XArray(<<XInt(I(5)), XInt(I(6))>>)>>),
     XInt(I(5)), XBool(TRUE), XString(<<>>), XString(<<"a">>), XStruct({})}

ShapeTargets ==
    {TOption(TInt("i32")), TOption(TOption(TInt("i32"))), TVec(TInt("i32")),
     TTuple(<<TInt("i32")>>), TTuple(<<TInt("i32"), TInt("i32")>>),
     TTuple(<<TInt("i32"), TInt("i32"), TInt("i32"), TInt("i32")>>),
     TChar, Helper}

\* Strings a peer may send where a char is wanted
CharSources ==
    {XString(<<c>>) : c \in Chars} \cup
    {XString(<<"a", "b">>), XString(<<"e-acute", "a">>), XString(<<"a", "b", "c">>)}

\* Structs a peer may send where the enum Helper is wanted
EnumSources ==
    {XStruct({<<Foo, XStruct({})>>}), XStruct({<<Foo, XInt(I(5))>>}),
     XStruct({<<Foo, XArray(<<>>)>>}), XStruct({<<Foo, XStruct({<<alpha, XInt(I(5))>>})>>}),
     XStruct({<<Bar, XInt(I(5))>>}), XStruct({<<Bar, XString(<<"a">>)>>}),
     XStruct({<<Baz, XArray(<<XBool(TRUE), XString(<<"a">>)>>)>>}),
     XStruct({<<Baz, XArray(<<XBool(TRUE)>>)>>}),
     XStruct({<<Baz, XArray(<<XBool(TRUE), XString(<<"a">>), XInt(I(5))>>)>>}),
     XStruct({<<Qux, XStruct({<<alpha, XInt(I(5))>>, <<beta, XArray(<<XBool(TRUE)>>)>>})>>}),
     XStruct({<<Qux, XStruct({<<alpha, XInt(I(5))>>})>>}),
     XStruct({<<Qux, XArray(<<XInt(I(5)), XArray(<<XBool(TRUE)>>)>>)>>}),
     XStruct({<<Foo, XStruct({})>>, <<Bar, XInt(I(5))>>}),
     XStruct({<<Foo, XStruct({})>>, <<Bar, XInt(I(5))>>,
              <<Baz, XArray(<<XBool(TRUE), XString(<<"a">>)>>)>>}),
     XStruct({<<alpha, XStruct({})>>}),
     XString(Foo)}

\* an ISO 8601 date as a peer writes it in <dateTime.iso8601>
IsoDate == <<"1", "9", "9", "8", "0", "7", "1", "7", "T", "1", "4", ":", "0", "8", ":", "5", "5">>

\* Values a peer may send where a string is wanted
StringSources ==
    {XString(<<>>), XString(<<"a">>), XString(IsoDate), XDateTime(IsoDate), XDateTime(<<>>),
     XDouble("-1.5"), XBase64(<<0, 255>>), XInt(I(5)), XBool(TRUE),
     XArray(<<XString(<<"a">>)>>), XArray(<<>>), XStruct({}),
     XStruct({<<<<"a">>, XString(<<"a">>)>>})}

\* Arrays a peer may send where strings are wanted
StringArraySources ==
    {XArray(<<XString(<<"a">>), XDateTime(IsoDate)>>), XArray(<<XDateTime(IsoDate)>>),
     XArray(<<XString(<<"a">>), XString(IsoDate)>>)}

PeerInputs ==
    {<<TInt(w), v>> : w \in IntTypes, v \in IntSources} \cup
    {<<TString, v>> : v \in StringSources} \cup
    {<<ty, v>> : ty \in {TVec(TString), TOption(TString)}, v \in StringArraySources} \cup
    {<<ty, v>> : ty \in ShapeTargets, v \in PeerValues} \cup
    {<<TChar, v>> : v \in CharSources} \cup
    {<<Helper, v>> : v \in EnumSources}

TargetTypes ==
    {TInt("i32"), TString, TUnit, TOption(TInt("i32")), TVec(TInt("i32")),
     TVec(TVec(TInt("i32"))), TTuple(<<TInt("i32"), TString>>)}

PeerParamValues ==
    {XInt(I(5)), XString(<<"a">>), XArray(<<XInt(I(5)), XInt(I(6))>>), XArray(<<>>),
     XStruct({})}

PeerParams == SeqsUpTo(PeerParamValues, MaxParams)

ParsedCalls == {Err("Failed to parse XML-RPC call.")} \cup
               {Ok(CallValue(<<"f">>, p)) : p \in PeerParams}

ParsedResponses ==
    {Err("Failed to parse XML-RPC response.")} \cup
    {Ok(ResponseValueSuccess(p)) : p \in PeerParams} \cup
    {Ok(ResponseValueFault(I(4), <<"m">>))}

(***************************************************************************)
(* The typed layer as a state machine: a value is serialized and           *)
(* deserialized again, turned into params and back, or a peer's Value,     *)
(* params, call or response is decoded into a target type.                 *)
(***************************************************************************)
App(ty, v) == [k |-> "app", ty |-> ty, val |-> v]

Target(ty) == [k |-> "target", ty |-> ty, val |-> NoValue]

Serialize ==
    /\ pc = "idle"
    /\ \E ty \in AppTypes : \E v \in ValuesOf(ty) :
          /\ msg' = App(ty, v)
          /\ wire' = serialize(ty, v)
    /\ pc' = "serialized"
    /\ res' = NoValue

\* a float or a byte string is serialized
SerializeScalar ==
    /\ pc = "idle"
    /\ \E ty \in {TF64, TBytes} : \E v \in ValuesOf(ty) :
          /\ msg' = App(ty, v)
          /\ wire' = serialize(ty, v)
    /\ pc' = "scalar_serialized"
    /\ res' = NoValue

ReceiveValue ==
    /\ pc = "idle"
    /\ \E in \in PeerInputs :
          /\ msg' = Target(in[1])
          /\ wire' = Ok(in[2])
    /\ pc' = "value_received"
    /\ res' = NoValue

Deserialize ==
    /\ pc \in {"serialized", "value_received"}
    /\ wire.ok
    /\ res' = deserialize(msg.ty, wire.val)
    /\ pc' = "deserialized"
    /\ UNCHANGED <<msg, wire>>

IntoParams ==
    /\ pc = "idle"
    /\ \E ty \in AppTypes : \E v \in ValuesOf(ty) :
          /\ msg' = App(ty, v)
          /\ wire' = into_params(ty, v)
    /\ pc' = "params_written"
    /\ res' = NoValue

ReceiveParams ==
    /\ pc = "idle"
    /\ \E ty \in TargetTypes : \E p \in PeerParams :
          /\ msg' = Target(ty)
          /\ wire' = Ok(p)
    /\ pc' = "params_received"
    /\ res' = NoValue

FromParams ==
    /\ pc \in {"params_written", "params_received"}
    /\ wire.ok
    /\ res' = from_params(msg.ty, wire.val)
    /\ pc' = "params_read"
    /\ UNCHANGED <<msg, wire>>

ParseCall ==
    /\ pc = "idle"
    /\ \E ty \in TargetTypes : \E c \in ParsedCalls :
          /\ msg' = Target(ty)
          /\ wire' = c
          /\ res' = call(ty, c)
    /\ pc' = "call_parsed"

ParseResponse ==
    /\ pc = "idle"
    /\ \E ty \in TargetTypes : \E r \in ParsedResponses :
          /\ msg' = Target(ty)
          /\ wire' = r
          /\ res' = response(ty, r)
    /\ pc' = "response_parsed"

NextTyped ==
    \/ Serialize
    \/ SerializeScalar
    \/ ReceiveValue
    \/ Deserialize
    \/ IntoParams
    \/ ReceiveParams
    \/ FromParams
    \/ ParseCall
    \/ ParseResponse

SpecTyped == InitWire /\ [][NextTyped]_vars

(***************************************************************************)
(* Server (src/server.rs): handlers registered by name, the handler of     *)
(* missing methods, and the service that answers a request body.  A        *)
(* Response is Ok(params) or Err(fault).                                   *)
(***************************************************************************)
\* Fault::new: a fault of a code and a message
Fault_new(code, message) == [code |-> code, message |-> message]

on_decode_fail(err) ==
    Err(Fault_new(I(400), <<"Failed to decode request: ", err>>))

\* a handler of encode failures that answers as the one of decode failures
on_encode_fail_AsDecodeFail(err) ==
    Err(Fault_new(I(400), <<"Failed to decode request: ", err>>))

on_encode_fail(err) ==
    Err(Fault_new(I(500), <<"Failed to encode response: ", err>>))

on_missing_method(params) ==
    Err(Fault_new(I(404), <<"Requested method does not exist">>))

\* the Display of the error of from_params, the message of its chain_err
ConvertError == "Failed to convert XML-RPC to structure."

\* the Display of ErrorKind::UnsupportedData
UnsupportedDataError ==
    "Given structure is not supported: Key must be a bool, int, float, char or string."

\* the handlers an application registers: Fn(Treq) -> Result<Tres, Fault>
Echo == [fn |-> "echo", Treq |-> TInt("i32"), Tres |-> TInt("i32")]

Lookup ==
    [fn |-> "lookup", Treq |-> TVec(TInt("i32")),
     Tres |-> THashMap(TOption(TInt("i32")), TInt("i32"))]

Refuse == [fn |-> "refuse", Treq |-> TString, Tres |-> TUnit]

TypedHandlers == {Echo, Lookup, Refuse}

\* what the application's handler returns
run(handler, v) ==
    CASE handler.fn = "echo"   -> Ok(v)
      [] handler.fn = "lookup" -> Ok({<<<<v[i]>>, v[i]>> : i \in 1..Len(v)})
      [] handler.fn = "refuse" -> Err(Fault_new(I(7), <<"no">>))

\* the boxed handlers of a Server: the function on_missing_method, a function
\* of the application on the params (it answers with the params it got), and the
\* closure that register builds around a typed handler
MissingMethodHandler == [k |-> "on_missing_method"]

ValueHandler(fn) == [k |-> "value", fn |-> fn]

\* an Err is answered by the handler of failures named
fail_with(name, err) ==
    IF name = "on_decode_fail" THEN on_decode_fail(err) ELSE on_encode_fail(err)

RegisteredHandler(handler, encode_fail, decode_fail) ==
    [k |-> "registered", handler |-> handler,
     encode_fail |-> encode_fail, decode_fail |-> decode_fail]

\* the call of a boxed handler: its Response and the functions of the application
\* that were invoked
\* a closure that hands the fault of the handler to the handler of encode failures
call_handler_FaultToEncodeFail(h, params) ==
    CASE h.k = "on_missing_method" ->
             [response |-> on_missing_method(params), invoked |-> <<>>, ran |-> <<>>]
      [] h.k = "value" ->
             [response |-> Ok(params), invoked |-> <<h.fn>>, ran |-> <<>>]
      [] h.k = "registered" ->
             LET p == from_params(h.handler.Treq, params)
             IN  IF ~p.ok
                 THEN [response |-> fail_with(h.decode_fail, ConvertError),
                       invoked |-> <<>>,
                       ran |-> <<"from_params", h.decode_fail>>]
                 ELSE LET returned == run(h.handler, p.val)
                          e == IF returned.ok
                               THEN into_params(h.handler.Tres, returned.val)
                               ELSE Err(returned.val)
                      IN  [response |-> IF e.ok THEN e
                                        ELSE fail_with(h.encode_fail, UnsupportedDataError),
                           invoked |-> <<h.handler.fn>>,
                           ran |-> <<"from_params", "handler", "into_params">> \o
                                   (IF e.ok THEN <<>> ELSE <<h.encode_fail>>)]

call_handler(h, params) ==
    CASE h.k = "on_missing_method" ->
             [response |-> on_missing_method(params), invoked |-> <<>>, ran |-> <<>>]
      [] h.k = "value" ->
             [response |-> Ok(params), invoked |-> <<h.fn>>, ran |-> <<>>]
      [] h.k = "registered" ->
             LET p == from_params(h.handler.Treq, params)
             IN  IF ~p.ok
                 THEN [response |-> fail_with(h.decode_fail, ConvertError),
                       invoked |-> <<>>,
                       ran |-> <<"from_params", h.decode_fail>>]
                 ELSE LET returned == run(h.handler, p.val)
                      IN  IF ~returned.ok
                          THEN [response |-> returned, invoked |-> <<h.handler.fn>>,
                                ran |-> <<"from_params", "handler">>]
                          ELSE LET e == into_params(h.handler.Tres, returned.val)
                               IN  [response |-> IF e.ok THEN e
                                                 ELSE fail_with(h.encode_fail,
                                                                UnsupportedDataError),
                                    invoked |-> <<h.handler.fn>>,
                                    ran |-> <<"from_params", "handler", "into_params">> \o
                                            (IF e.ok THEN <<>> ELSE <<h.encode_fail>>)]

\* Server::default
Server_default == [k |-> "server", handlers |-> {}, on_missing_method |-> MissingMethodHandler]

\* an insert that keeps the handler a name already has
register_value_KeepFirst(server, name, h) ==
    IF \E e \in server.handlers : e[1] = name THEN server
    ELSE [server EXCEPT !.handlers = @ \cup {<<name, h>>}]

\* HashMap::insert on the handlers
register_value(server, name, h) ==
    [server EXCEPT !.handlers = {e \in @ : e[1] # name} \cup {<<name, h>>}]

register(server, name, handler, encode_fail, decode_fail) ==
    register_value(server, name, RegisteredHandler(handler, encode_fail, decode_fail))

register_simple(server, name, handler) ==
    register(server, name, handler, "on_encode_fail", "on_decode_fail")

set_on_missing(server, h) == [server EXCEPT !.on_missing_method = h]

\* a lookup that never finds a handler
handler_for_Missing(server, name) == server.on_missing_method

\* self.handlers.get(&req.name).unwrap_or(&self.on_missing_method)
handler_for(server, name) ==
    IF \E e \in server.handlers : e[1] = name
    THEN (CHOOSE e \in server.handlers : e[1] = name)[2]
    ELSE server.on_missing_method

\* a server that answers a call of an unknown name with one of its handlers
handle_AnyHandler(server, req) ==
    IF server.handlers # {}
    THEN call_handler((CHOOSE e \in server.handlers : TRUE)[2], req.params)
    ELSE call_handler(server.on_missing_method, req.params)

\* Server::handle
handle(server, req) == call_handler(handler_for(server, req.name), req.params)

\* Service::call on what parse::call made of the body: the error of hyper when the
\* body is no call, otherwise the Response that is written as the body
Service_call(server, parsed) ==
    IF ~parsed.ok
    THEN [reply |-> Err("hyper::error::Error::Incomplete"), invoked |-> <<>>, ran |-> <<>>]
    ELSE LET r == handle(server, parsed.val)
         IN  [reply |-> Ok(r.response), invoked |-> r.invoked, ran |-> r.ran]

MethodNamesServed == {<<"e", "c", "h", "o">>, <<"l", "o", "o", "k", "u", "p">>}

MethodNamesCalled == MethodNamesServed \cup {<<"n", "o", "p", "e">>}

ParamsCalled ==
    {<<>>, <<XInt(I(5))>>, <<XInt(I(5)), XInt(I(6))>>, <<XString(<<"a">>)>>,
     <<XArray(<<XInt(I(5))>>)>>}

\* what parse::call makes of the bodies received
BodiesParsed ==
    {Err("Failed to parse XML-RPC call.")} \cup
    {Ok(CallValue(name, params)) : name \in MethodNamesCalled, params \in ParamsCalled}

\* the calls an application makes on its server before it binds it
MaxCalls == 3

\* a server with the history of the calls made on it: the method called, the name
\* and the handler it was given
Called(server, calls) ==
    [k |-> "server", handlers |-> server.handlers,
     on_missing_method |-> server.on_missing_method, calls |-> calls]

ServerCall(method, name, h) == [method |-> method, name |-> name, h |-> h]

ServerNew ==
    /\ pc = "idle"
    /\ msg' = Called(Server_default, <<>>)
    /\ pc' = "configuring"
    /\ UNCHANGED <<wire, res>>

RegisterSimple ==
    /\ pc = "configuring"
    /\ Len(msg.calls) < MaxCalls
    /\ \E name \in MethodNamesServed : \E handler \in TypedHandlers :
          msg' = Called(register_simple(msg, name, handler),
                        Append(msg.calls, ServerCall("register_simple", name, handler)))
    /\ UNCHANGED <<pc, wire, res>>

RegisterValue ==
    /\ pc = "configuring"
    /\ Len(msg.calls) < MaxCalls
    /\ \E name \in MethodNamesServed :
          msg' = Called(register_value(msg, name, ValueHandler("mirror")),
                        Append(msg.calls,
                               ServerCall("register_value", name, ValueHandler("mirror"))))
    /\ UNCHANGED <<pc, wire, res>>

SetOnMissing ==
    /\ pc = "configuring"
    /\ Len(msg.calls) < MaxCalls
    /\ msg' = Called(set_on_missing(msg, ValueHandler("fallback")),
                     Append(msg.calls,
                            ServerCall("set_on_missing", <<>>, ValueHandler("fallback"))))
    /\ UNCHANGED <<pc, wire, res>>

Bind ==
    /\ pc = "configuring"
    /\ pc' = "serving"
    /\ UNCHANGED <<msg, wire, res>>

ServiceCall ==
    /\ pc = "serving"
    /\ \E parsed \in BodiesParsed :
          /\ wire' = parsed
          /\ res' = Service_call(msg, parsed)
    /\ pc' = "responded"
    /\ UNCHANGED msg

NextServer ==
    \/ ServerNew
    \/ RegisterSimple
    \/ RegisterValue
    \/ SetOnMissing
    \/ Bind
    \/ ServiceCall

SpecServer == InitWire /\ [][NextServer]_vars

(***************************************************************************)
(* Client (src/client.rs): Client::call turns the request into params,     *)
(* Client::call_value sends them and parses the body received, and the     *)
(* match of Client::call converts the params of a success.  The result is  *)
(* a Result (the outer channel) of a Result<Tres, Fault>.                  *)
(***************************************************************************)
ClientCall(name, Treq, req, Tres) ==
    [k |-> "client call", name |-> name, Treq |-> Treq, req |-> req, Tres |-> Tres]

\* a match of Client::call that converts whatever the response holds
call_match_ConvertAll(Tres, answered) ==
    IF ~answered.ok THEN [result |-> answered, from_params_ran |-> FALSE]
    ELSE LET v == from_params(Tres, IF answered.val.ok THEN answered.val.val ELSE <<>>)
         IN  [result |-> IF v.ok THEN Ok(v) ELSE Err(ConvertError),
              from_params_ran |-> TRUE]

\* the match of Client::call on what call_value returned: the result of the call, and
\* whether from_params ran
call_match(Tres, answered) ==
    IF ~answered.ok THEN [result |-> answered, from_params_ran |-> FALSE]
    ELSE IF ~answered.val.ok THEN [result |-> Ok(answered.val), from_params_ran |-> FALSE]
    ELSE LET v == from_params(Tres, answered.val.val)
         IN  [result |-> IF v.ok THEN Ok(v) ELSE Err(ConvertError),
              from_params_ran |-> TRUE]

\* the requests an application makes: a name, the request and the type of the reply
ClientCalls ==
    {ClientCall(<<"f">>, Treq, req, Tres) :
        Treq \in {TInt("i32")}, req \in {I(5)}, Tres \in TargetTypes} \cup
    {ClientCall(<<"f">>, Lookup.Tres, req, TInt("i32")) : req \in ValuesOf(Lookup.Tres)}

\* the faults a server may answer with
FaultsReceived == {Fault_new(I(4), <<"m">>), Fault_new(I(400), <<>>)}

\* what Client::call_value may return: the error of the HTTP request, the error of
\* parse::response, or the Response parsed
Answers ==
    {Err("Failed to run the HTTP request within Tokio Core."),
     Err("Failed to parse XML-RPC response.")} \cup
    {Ok(Ok(p)) : p \in PeerParams} \cup
    {Ok(Err(f)) : f \in FaultsReceived}

\* Client::call up to the call of call_value: into_params(&req)?
ClientSend ==
    /\ pc = "idle"
    /\ \E c \in ClientCalls :
          LET params == into_params(c.Treq, c.req)
          IN  /\ msg' = c
              /\ wire' = params
              /\ IF params.ok
                 THEN pc' = "sent" /\ res' = NoValue
                 ELSE /\ pc' = "returned"
                      /\ res' = [result |-> Err(UnsupportedDataError),
                                 from_params_ran |-> FALSE]

\* Client::call_value returns
ClientAnswered ==
    /\ pc = "sent"
    /\ \E a \in Answers : wire' = a
    /\ pc' = "answered"
    /\ UNCHANGED <<msg, res>>

\* the match of Client::call
ClientReturn ==
    /\ pc = "answered"
    /\ res' = call_match(msg.Tres, wire)
    /\ pc' = "returned"
    /\ UNCHANGED <<msg, wire>>

NextClient ==
    \/ ClientSend
    \/ ClientAnswered
    \/ ClientReturn

SpecClient == InitWire /\ [][NextClient]_vars

(***************************************************************************)
(* A bound server answering several requests at once (src/server.rs,       *)
(* Service and NewService).  Every Service holds an Arc of the one Server; *)
(* the chunk, the call and the response of a request are locals of the     *)
(* closure of Service::call.  The steps of one request (body read, call    *)
(* parsed, handler returned, response sent) interleave freely with the     *)
(* steps of the others.                                                    *)
(***************************************************************************)
MaxRequests == 2

RequestIds == 1..MaxRequests

\* servers as an application binds them
BoundServers ==
    {register_simple(register_simple(Server_default, <<"e", "c", "h", "o">>, Echo),
                     <<"l", "o", "o", "k", "u", "p">>, Lookup),
     register_simple(Server_default, <<"e", "c", "h", "o">>, Refuse),
     set_on_missing(register_value(Server_default, <<"l", "o", "o", "k", "u", "p">>,
                                   ValueHandler("mirror")),
                    ValueHandler("fallback"))}

\* what parse::call makes of the bodies of the requests
BodiesServed ==
    {Err("Failed to parse XML-RPC call."),
     Ok(CallValue(<<"e", "c", "h", "o">>, <<XInt(I(5))>>)),
     Ok(CallValue(<<"e", "c", "h", "o">>, <<XString(<<"a">>)>>)),
     Ok(CallValue(<<"l", "o", "o", "k", "u", "p">>, <<XInt(I(5)), XInt(I(6))>>)),
     Ok(CallValue(<<"l", "o", "o", "k", "u", "p">>, <<>>)),
     Ok(CallValue(<<"n", "o", "p", "e">>, <<>>))}

\* the boxed handlers of the servers bound, the params of the calls served, and what
\* each handler answers to each of these params
HandlersBound ==
    UNION {{e[2] : e \in server.handlers} \cup {server.on_missing_method} :
              server \in BoundServers}

ParamsServed == {parsed.val.params : parsed \in {b \in BodiesServed : b.ok}}

HandlerReturns ==
    {<<h, params, call_handler(h, params)>> : h \in HandlersBound, params \in ParamsServed}

returned_by(h, params) ==
    (CHOOSE t \in HandlerReturns : t[1] = h /\ t[2] = params)[3]

\* res.to_xml(), the body of the response
to_xml(r) == [k |-> "xml", of |-> r]

\* the locals of a request that has not come in
Waiting ==
    [stage |-> "waiting", called |-> <<>>, invoked |-> <<>>, response |-> NoValue,
     sent |-> <<>>]

\* locals that all requests share
own_Shared(slots, r, v) == [q \in DOMAIN slots |-> v]

\* the locals of the closure of request r
own(slots, r, v) == [slots EXCEPT ![r] = v]

Listen ==
    /\ pc = "idle"
    /\ \E server \in BoundServers : msg' = server
    /\ wire' = [r \in RequestIds |-> NoValue]
    /\ res' = [r \in RequestIds |-> Waiting]
    /\ pc' = "listening"

\* req.body().concat2(): the body of request r is there
ReceiveBody(r) ==
    /\ pc = "listening"
    /\ res[r].stage = "waiting"
    /\ \E parsed \in BodiesServed : wire' = own(wire, r, parsed)
    /\ res' = own(res, r, [res[r] EXCEPT !.stage = "received"])
    /\ UNCHANGED <<pc, msg>>

\* parse::call: the call, or the error of hyper that ends the request
DecodeBody(r) ==
    /\ pc = "listening"
    /\ res[r].stage = "received"
    /\ res' = own(res, r, [res[r] EXCEPT
                              !.stage = IF wire[r].ok THEN "decoded" ELSE "failed",
                              !.sent = IF wire[r].ok THEN @
                                       ELSE <<Service_call(msg, wire[r]).reply>>])
    /\ UNCHANGED <<pc, msg, wire>>

\* server.handle(call)
HandleCall(r) ==
    /\ pc = "listening"
    /\ res[r].stage = "decoded"
    /\ \E h \in {handler_for(msg, wire[r].val.name)} :
       \E returned \in {returned_by(h, wire[r].val.params)} :
           res' = own(res, r, [res[r] EXCEPT !.stage = "handled",
                                             !.called = @ \o <<h>>,
                                             !.invoked = @ \o returned.invoked,
                                             !.response = returned.response])
    /\ UNCHANGED <<pc, msg, wire>>

\* futures::future::ok(HyperResponse::new() .. .with_body(body))
Respond(r) ==
    /\ pc = "listening"
    /\ res[r].stage = "handled"
    /\ res' = own(res, r, [res[r] EXCEPT !.stage = "responded",
                                         !.sent = @ \o <<Ok(to_xml(res[r].response))>>])
    /\ UNCHANGED <<pc, msg, wire>>

NextService ==
    \/ Listen
    \/ \E r \in RequestIds : ReceiveBody(r)
    \/ \E r \in RequestIds : DecodeBody(r)
    \/ \E r \in RequestIds : HandleCall(r)
    \/ \E r \in RequestIds : Respond(r)

SpecService == InitWire /\ [][NextService]_vars

\* the event loop polls every future that is ready: a body that is there is parsed,
\* a parsed call is handled, and the response of a handler that returned is sent
SpecServiceFair ==
    /\ SpecService
    /\ \A r \in RequestIds :
          WF_vars(DecodeBody(r)) /\ WF_vars(HandleCall(r)) /\ WF_vars(Respond(r))

(***************************************************************************)
(* Properties of the typed layer and of the server.                        *)
(***************************************************************************)
OwnParamsRead == pc = "params_read" /\ msg.k = "app"

PeerParamsRead == pc = "params_read" /\ msg.k = "target"

\* C2 as stated: from_params(into_params(v)) succeeds and returns v for every value of
\* every type: scalars, unit, options, tuples and sequences of any length, sequences
\* of sequences.
C2_ParamsRoundTrip == OwnParamsRead => res.ok /\ res.val = msg.val

\* the Value the rule of from_params hands to the decoder
RuleData(params) == IF Len(params) = 1 THEN params[1] ELSE XArray(params)

\* C3: from_params decodes the target from the only param when there is exactly one
\* and from Array(params), all params in order, for every other length; call and
\* response decode a typed Call and a typed Success by the same rule.
C3_FromParamsRule ==
    /\ pc = "params_read" =>
           /\ res = deserialize(msg.ty, RuleData(wire.val))
           /\ msg.ty = TInt("i32") =>
                  (res.ok <=> Len(wire.val) = 1 /\ wire.val[1].k = "Int")
           /\ msg.ty = TInt("i32") /\ wire = Ok(<<XInt(I(5))>>) => res = Ok(I(5))
           /\ msg.ty = TVec(TInt("i32")) /\ wire = Ok(<<>>) => res = Ok(<<>>)
           /\ msg.ty = TVec(TInt("i32")) /\ wire = Ok(<<XInt(I(5))>>) => ~res.ok
           /\ msg.ty = TVec(TInt("i32")) /\ wire = Ok(<<XInt(I(5)), XInt(I(5))>>)
                  => res = Ok(<<I(5), I(5)>>)
           /\ msg.ty = TVec(TInt("i32")) /\ wire = Ok(<<XArray(<<XInt(I(5)), XInt(I(6))>>)>>)
                  => res = Ok(<<I(5), I(6)>>)
    /\ pc = "call_parsed" /\ wire.ok =>
           LET d == deserialize(msg.ty, RuleData(wire.val.params))
           IN  /\ d.ok => res = Ok(Call(wire.val.name, d.val))
               /\ ~d.ok => ~res.ok
    /\ pc = "response_parsed" /\ wire.ok /\ wire.val.k = "Success" =>
           LET d == deserialize(msg.ty, RuleData(wire.val.params))
           IN  /\ d.ok => res = Ok(ResponseSuccess(d.val))
               /\ ~d.ok => ~res.ok

C3_Witness ==
    /\ PeerParamsRead
    /\ msg.ty = TTuple(<<TInt("i32"), TString>>)
    /\ wire = Ok(<<XInt(I(5)), XString(<<"a">>)>>)
    /\ res = Ok(<<I(5), <<"a">>>>)

\* the decimal text of a number: a minus sign for a negative one, then its digits
\* without leading zeros
IsDecimalOf(text, n) ==
    LET ds == IF text # <<>> /\ text[1] = "-" THEN Tail(text) ELSE text
    IN  /\ ds # <<>>
        /\ AllDigits(ds)
        /\ Len(ds) > 1 => ds[1] # "0"
        /\ (text[1] = "-") <=> n.neg
        /\ Big(n.neg, DigitsToMag(ds)) = n

\* C8: the serializer turns every i8, i16, i32, u8 and u16 into Int of the number and
\* every u32, i64 and u64, small ones included, into String of its decimal text.
C8_IntegerEncoding ==
    pc = "serialized" /\ msg.ty.k \in IntTypes =>
        /\ msg.ty.k \in {"i8", "i16", "i32", "u8", "u16"} => wire = Ok(XInt(msg.val))
        /\ msg.ty.k \in {"u32", "i64", "u64"} =>
               wire.ok /\ wire.val.k = "String" /\ IsDecimalOf(wire.val.v, msg.val)
        /\ msg.ty.k = "u32" /\ msg.val = FourPointTwoBillion =>
               wire = Ok(XString(<<"4", "2", "0", "0", "0", "0", "0", "0", "0", "0">>))

C8_Witness ==
    /\ pc = "serialized"
    /\ msg.ty = TInt("u32")
    /\ msg.val = I(5)
    /\ wire = Ok(XString(<<"5">>))

\* C9: for every integer width, deserializing what the serializer made of a number
\* into the same width gives the number back; 4200000000u32 travels as
\* String("4200000000") and -2000000000i32 as Int(-2000000000).
C9_IntegerRoundTrip ==
    pc = "deserialized" /\ msg.k = "app" /\ msg.ty.k \in IntTypes =>
        /\ res = Ok(msg.val)
        /\ msg = App(TInt("u32"), FourPointTwoBillion) =>
               wire = Ok(XString(<<"4", "2", "0", "0", "0", "0", "0", "0", "0", "0">>))
        /\ msg = App(TInt("i32"), MinusTwoBillion) => wire = Ok(XInt(MinusTwoBillion))

C9_Witness ==
    /\ pc = "deserialized"
    /\ msg.ty = TInt("u32")
    /\ msg.val = FourPointTwoBillion
    /\ res = Ok(FourPointTwoBillion)

\* the number a Value denotes: the payload of an Int, the value of a String that is a
\* decimal integer (an optional sign, then digits)
Denoted(value) ==
    CASE value.k = "Int"    -> Ok(value.v)
      [] value.k = "String" ->
             LET ds == IF value.v # <<>> /\ value.v[1] \in {"+", "-"}
                       THEN Tail(value.v) ELSE value.v
             IN  IF ds # <<>> /\ AllDigits(ds)
                 THEN Ok(Big(value.v[1] = "-", DigitsToMag(ds)))
                 ELSE Err("not a decimal integer")
      [] OTHER              -> Err("not a number")

PeerValueDecoded == pc = "deserialized" /\ msg.k = "target" /\ msg.ty.k \in IntTypes

\* C10 as stated: decoding into an integer width succeeds only if the Value, String or
\* Int, denotes a number of that width's range, and then returns that number.
C10_RangeChecked ==
    PeerValueDecoded /\ res.ok =>
        LET n == Denoted(wire.val)
        IN  n.ok /\ InRange(n.val, msg.ty.k) /\ res.val = n.val

\* C10, amended: a String decodes only if it is a decimal integer of the width's range,
\* and then to that number; an Int always decodes: to itself when it is in the width's
\* range, and cast (wrapped to the width) when it is not; no other Value decodes.
C10_IntDecode ==
    PeerValueDecoded =>
        LET w == msg.ty.k
            n == Denoted(wire.val)
        IN  CASE wire.val.k = "String" ->
                     res.ok => n.ok /\ InRange(n.val, w) /\ res.val = n.val
              [] wire.val.k = "Int" ->
                     /\ res.ok
                     /\ InRange(res.val, w)
                     /\ InRange(wire.val.v, w) <=> res.val = wire.val.v
                     /\ w = "u8" /\ wire.val.v = I(300) => res.val = I(44)
                     /\ w = "u8" /\ wire.val.v = I(-1) => res.val = I(255)
                     /\ w = "i8" /\ wire.val.v = I(200) => res.val = I(-56)
                     /\ w = "u16" /\ wire.val.v = I(65536) => res.val = I(0)
                     /\ w = "i16" /\ wire.val.v = I(40000) => res.val = I(-25536)
                     /\ w = "u32" /\ wire.val.v = I(-1) => res.val = IntMax("u32")
                     /\ w = "u64" /\ wire.val.v = I(-1) => res.val = IntMax("u64")
              [] OTHER -> ~res.ok

C10_Witness ==
    /\ PeerValueDecoded
    /\ msg.ty = TInt("u8")
    /\ wire = Ok(XInt(I(300)))
    /\ res = Ok(I(44))

OwnValueDecoded == pc = "deserialized" /\ msg.k = "app"

PeerShapeDecoded == pc = "deserialized" /\ msg.k = "target"

\* C11: None is serialized as Array([]) and Some(x) as Array([x serialized]); an option
\* is deserialized from an Array of no element as None, of one element as Some of
\* that element deserialized, and from a longer Array or another Value not at all;
\* every option, nested ones too, comes back as itself.
C11_OptionLaw ==
    /\ pc = "serialized" /\ msg.ty.k = "Option" =>
           /\ msg.val = <<>> => wire = Ok(XArray(<<>>))
           /\ msg.val # <<>> =>
                  LET inner == serialize(msg.ty.of[1], msg.val[1])
                  IN  IF inner.ok THEN wire = Ok(XArray(<<inner.val>>)) ELSE ~wire.ok
    /\ OwnValueDecoded /\ msg.ty.k = "Option" => res = Ok(msg.val)
    /\ PeerShapeDecoded /\ msg.ty.k = "Option" =>
           IF wire.val.k = "Array" /\ Len(wire.val.v) = 0 THEN res = Ok(<<>>)
           ELSE IF wire.val.k = "Array" /\ Len(wire.val.v) = 1
           THEN LET d == deserialize(msg.ty.of[1], wire.val.v[1])
                IN  IF d.ok THEN res = Ok(<<d.val>>) ELSE ~res.ok
           ELSE ~res.ok

C11_Witness ==
    /\ OwnValueDecoded
    /\ msg.ty = TOption(TOption(TInt("i32")))
    /\ msg.val = <<<<>>>>
    /\ wire = Ok(XArray(<<XArray(<<>>)>>))
    /\ res = Ok(<<<<>>>>)

\* what the payload of a variant is to be written as: an empty Struct for a unit
\* variant, the inner value serialized for a newtype variant, an Array of the
\* elements for a tuple variant, a Struct of the fields for a struct variant
VariantContent(variant, payload) ==
    CASE variant.k = "unit_variant"    -> XStruct({})
      [] variant.k = "newtype_variant" -> serialize(variant.of[1], payload).val
      [] variant.k = "tuple_variant"   ->
             XArray([i \in 1..Len(payload) |-> serialize(variant.of[i], payload[i]).val])
      [] variant.k = "struct_variant"  ->
             XStruct({<<variant.of[i][1], serialize(variant.of[i][2], payload[i]).val>> :
                         i \in 1..Len(payload)})

\* C12: a value of an enum is serialized as a Struct of one member named after the
\* variant, holding an empty Struct (unit variant), the inner value (newtype), an
\* Array (tuple) or a Struct of the fields (struct variant), and deserializing that
\* Struct gives the variant and its payload back.
C12_EnumLaw ==
    /\ pc = "serialized" /\ msg.ty.k = "enum" =>
           LET variant == VariantOf(msg.ty, msg.val[1])
           IN  wire = Ok(XStruct({<<msg.val[1], VariantContent(variant, msg.val[2])>>}))
    /\ OwnValueDecoded /\ msg.ty.k = "enum" => res = Ok(msg.val)

C12_Witness ==
    /\ OwnValueDecoded
    /\ msg.ty = Helper
    /\ msg.val = <<Qux, <<I(5), <<TRUE>>>>>>
    /\ wire = Ok(XStruct({<<Qux, XStruct({<<alpha, XInt(I(5))>>,
                                          <<beta, XArray(<<XBool(TRUE)>>)>>})>>}))
    /\ res = Ok(<<Qux, <<I(5), <<TRUE>>>>>>)

EnumDecoded == PeerShapeDecoded /\ msg.ty.k = "enum"

\* the only member of a Struct
OnlyMember(value) == CHOOSE m \in value.v : TRUE

\* C13: an enum is deserialized only from a Struct of exactly one member: a Struct of
\* no member, a Struct of two or more, and a Value that is no Struct all fail; a unit
\* variant fails as well unless the member's value is an empty Struct.
C13_EnumShape ==
    EnumDecoded =>
        /\ res.ok => wire.val.k = "Struct" /\ Cardinality(wire.val.v) = 1
        /\ wire.val.k = "Struct" /\ Cardinality(wire.val.v) = 1
               /\ VariantOf(msg.ty, Foo).k = "unit_variant"
               /\ OnlyMember(wire.val)[1] = Foo =>
                  IF OnlyMember(wire.val)[2] = XStruct({})
                  THEN res = Ok(<<Foo, Unit>>)
                  ELSE ~res.ok

C13_Witness ==
    /\ EnumDecoded
    /\ wire = Ok(XStruct({<<Foo, XStruct({})>>, <<Bar, XInt(I(5))>>}))
    /\ ~res.ok

\* an Array received for a tuple, with elements that can be read as the tuple's
ArityDecoded ==
    /\ PeerShapeDecoded
    /\ msg.ty.k = "tuple"
    /\ wire.val.k = "Array"
    /\ \A i \in 1..Len(wire.val.v) :
          i <= Len(msg.ty.of) => deserialize(msg.ty.of[i], wire.val.v[i]).ok

\* an Array received for a Vec, with elements that can be read as the Vec's
DynamicDecoded ==
    /\ PeerShapeDecoded
    /\ msg.ty.k = "Vec"
    /\ wire.val.k = "Array"
    /\ \A i \in 1..Len(wire.val.v) : deserialize(msg.ty.of[1], wire.val.v[i]).ok

\* the message of an error of length
IsLengthError(r) == ~r.ok /\ r.val[1] = "invalid length "

\* the message has the count n in it
Names(message, n) == \E i \in 1..Len(message) : message[i] = ToString(n)

\* C14 as stated: an Array of n elements is deserialized into a tuple of k only when
\* n = k; for n < k and for n > k it fails with an error of length whose message names
\* the expected count k and the found count n; a Vec takes all n elements.
C14_ArityCheck ==
    /\ ArityDecoded =>
           LET n == Len(wire.val.v)
               k == Len(msg.ty.of)
           IN  /\ res.ok <=> n = k
               /\ n # k => IsLengthError(res) /\ Names(res.val, k) /\ Names(res.val, n)
    /\ DynamicDecoded => res.ok /\ Len(res.val) = Len(wire.val.v)

\* the type of a key that is serialized to a Bool, an Int, a Double or a String
HasText(kty) == kty.k \in IntTypes \cup {"bool", "char", "String"}

RECURSIVE HoldsUnkeyed(_, _)
\* the value holds, at any depth, a map with a key that has no text
HoldsUnkeyed(ty, x) ==
    CASE ty.k = "Option"  -> x # <<>> /\ HoldsUnkeyed(ty.of[1], x[1])
      [] ty.k = "Vec"     -> \E i \in 1..Len(x) : HoldsUnkeyed(ty.of[1], x[i])
      [] ty.k = "tuple"   -> \E i \in 1..Len(x) : HoldsUnkeyed(ty.of[i], x[i])
      [] ty.k = "HashMap" ->
             \/ x # {} /\ ~HasText(ty.of[1])
             \/ \E e \in x : HoldsUnkeyed(ty.of[2], e[2])
      [] OTHER            -> FALSE

\* C15: serializing a map fails whenever one of its keys is serialized to a Value that
\* is no Bool, Int, Double or String (an option, a sequence or unit as key), and then
\* there is no Value for the map nor for a value that holds it, nor params for it.
C15_UnsupportedKey ==
    pc \in {"serialized", "params_written"} /\ HoldsUnkeyed(msg.ty, msg.val) => ~wire.ok

C15_Witness ==
    /\ pc = "serialized"
    /\ msg.ty = TVec(THashMap(TOption(TInt("i32")), TInt("i32")))
    /\ msg.val = <<{<<<<I(5)>>, I(5)>>}>>
    /\ ~wire.ok

\* the text of a key: true or false, the decimal number, the character, the string
KeyName(kty, key) ==
    CASE kty.k = "bool"     -> IF key THEN <<"t", "r", "u", "e">> ELSE <<"f", "a", "l", "s", "e">>
      [] kty.k \in IntTypes -> to_string(key)
      [] kty.k = "char"     -> <<key>>
      [] kty.k = "String"   -> key

\* C16 as stated: a map with bool, integer, char or string keys is serialized as a
\* Struct with the texts of the keys as member names, and deserializing that Struct
\* gives an equal map.
C16_MapKeyRoundTrip ==
    /\ pc = "serialized" /\ msg.ty \in KeyedMaps =>
           wire = Ok(XStruct({<<KeyName(msg.ty.of[1], e[1]), serialize(msg.ty.of[2], e[2]).val>> :
                                 e \in msg.val}))
    /\ OwnValueDecoded /\ msg.ty \in KeyedMaps => res = Ok(msg.val)

\* C17 as stated: a char is serialized as the String of that one character, and a
\* String is deserialized as a char exactly when it holds one character, of whatever
\* length in bytes; a String of no or several characters and a Value that is no
\* String fail.
C17_CharLaw ==
    /\ pc = "serialized" /\ msg.ty.k = "char" => wire = Ok(XString(<<msg.val>>))
    /\ PeerShapeDecoded /\ msg.ty.k = "char" =>
           IF wire.val.k = "String" /\ Len(wire.val.v) = 1
           THEN res = Ok(wire.val.v[1])
           ELSE ~res.ok

Responded == pc = "responded"

\* the handler registered under the name called, if there is one
Registered(name) == {e[2] : e \in {e \in msg.handlers : e[1] = name}}

\* the name called has a handler that register_simple made
SimpleCalled ==
    /\ Responded
    /\ wire.ok
    /\ \E h \in Registered(wire.val.name) : h.k = "registered"

SimpleHandler == (CHOOSE h \in Registered(wire.val.name) : TRUE).handler

\* the response is a fault of the code
IsFault(reply, code) == reply.ok /\ ~reply.val.ok /\ reply.val.val.code = I(code)

\* C18: a server whose set_on_missing was never called answers a call of a name
\* without handler with the fault of code 404 and invokes no handler.
C18_UnknownMethod ==
    Responded /\ msg.on_missing_method = MissingMethodHandler /\ wire.ok
        /\ Registered(wire.val.name) = {} =>
            IsFault(res.reply, 404) /\ res.invoked = <<>>

C18_Witness ==
    /\ Responded
    /\ msg.on_missing_method = MissingMethodHandler
    /\ msg.handlers # {}
    /\ wire.ok
    /\ Registered(wire.val.name) = {}
    /\ IsFault(res.reply, 404)

\* there is a method registered with register_simple
SomeSimple == \E e \in msg.handlers : e[2].k = "registered"

\* C19 as stated: with a method registered by register_simple, a body that is no
\* methodCall, and a call of the method whose params cannot be read as the handler's
\* request, are both answered with a response that carries the fault of code 400, and
\* the handler is not invoked.
C19_DecodeFailure ==
    /\ Responded /\ SomeSimple /\ ~wire.ok =>
           IsFault(res.reply, 400) /\ res.invoked = <<>>
    /\ SimpleCalled /\ ~from_params(SimpleHandler.Treq, wire.val.params).ok =>
           IsFault(res.reply, 400) /\ res.invoked = <<>>

\* the handler of the method called got its request and returned a reply
Replied ==
    /\ SimpleCalled
    /\ from_params(SimpleHandler.Treq, wire.val.params).ok
    /\ run(SimpleHandler, from_params(SimpleHandler.Treq, wire.val.params).val).ok

Reply == run(SimpleHandler, from_params(SimpleHandler.Treq, wire.val.params).val).val

\* C20: when the handler of a method registered by register_simple returns Ok(reply),
\* the response is the fault of code 500 if reply cannot be serialized, and
\* Success(into_params(reply)) if it can.
C20_EncodeFailure ==
    Replied =>
        LET params == into_params(SimpleHandler.Tres, Reply)
        IN  IF params.ok
            THEN res.reply = Ok(Ok(params.val))
            ELSE IsFault(res.reply, 500)

C20_Witness ==
    /\ Replied
    /\ SimpleHandler = Lookup
    /\ wire.val.params = <<XInt(I(5)), XInt(I(6))>>
    /\ IsFault(res.reply, 500)

Returned == pc = "returned"

\* the result is a fault handed to the application as data
IsFaultData(result) == result.ok /\ ~result.val.ok

\* C21: when the response parsed is a fault, Client::call returns Ok(Err(fault)) with
\* the code and the message received and does not run from_params; from_params runs
\* only on the params of a success; an error of the transport, of parsing the body, of
\* converting the reply (or the request) is returned as the outer Err, never as a
\* fault.
C21_FaultAsData ==
    Returned =>
        /\ wire.ok /\ ~wire.val.ok =>
               /\ res.result = Ok(Err(wire.val.val))
               /\ ~res.from_params_ran
        /\ res.from_params_ran => wire.ok /\ wire.val.ok
        /\ IsFaultData(res.result) => wire.ok /\ ~wire.val.ok
        /\ ~wire.ok => ~res.result.ok
        /\ wire.ok /\ wire.val.ok =>
               LET v == from_params(msg.Tres, wire.val.val)
               IN  IF v.ok THEN res.result = Ok(Ok(v.val)) ELSE ~res.result.ok

C21_Witness ==
    /\ Returned
    /\ wire = Ok(Err(Fault_new(I(4), <<"m">>)))
    /\ res.result = Ok(Err(Fault_new(I(4), <<"m">>)))
    /\ ~res.from_params_ran

Listening == pc = "listening"

\* the request is over: answered, or ended by the error of hyper
Over(r) == res[r].stage \in {"responded", "failed"}

\* what the request gets from the server when it is handled alone
Alone(server, parsed) == Service_call(server, parsed).reply

\* what request r got
Got(r) == IF res[r].stage = "failed" THEN res[r].sent[1] ELSE Ok(res[r].response)

\* C22: once the server is bound, in every interleaving of the requests handled at
\* once each request gets the response it gets when handled alone; a step of one
\* request changes neither the handlers, nor the handler of missing methods, nor the
\* call or the response of another request.
C22_Independence ==
    /\ [](Listening => \A r \in RequestIds : Over(r) => Got(r) = Alone(msg, wire[r]))
    /\ [][Listening =>
              /\ msg' = msg
              /\ \E r \in RequestIds :
                    \A q \in RequestIds \ {r} : wire'[q] = wire[q] /\ res'[q] = res[q]]_vars

C22_Witness ==
    /\ Listening
    /\ Over(1) /\ Over(2)
    /\ wire[1] = wire[2]
    /\ wire[1].ok
    /\ Got(1) = Alone(msg, wire[1])
    /\ Got(2) = Got(1)

FailureWritten == pc = "response_written" /\ msg.k = "Failure"

ExpectedRequest ==
    <<Decl, Start("methodCall"), Start("methodName"),
      Text(<<"f", "o", "o", "b", "a", "r">>), End("methodName"), Start("params"),
      Start("param"), Start("value"), Start("string"),
      Text(<<"S", "o", "u", "t", "h", " ", "D", "a", "k", "o", "t", "a">>),
      End("string"), End("value"), End("param"), Start("param"), Start("value"),
      Start("struct"), Start("member"), Start("name"), Text(<<"f", "o", "o">>),
      End("name"), Start("value"), Start("int"), Text(<<"4", "2">>), End("int"),
      End("value"), End("member"), Start("member"), Start("name"),
      Text(<<"b", "a", "r">>), End("name"), Start("value"), Start("string"),
      Text(<<"b", "a", "z">>), End("string"), End("value"), End("member"), End("struct"),
      End("value"), End("param"), End("params"), End("methodCall")>>

ExpectedSuccess ==
    <<Decl, Start("methodResponse"), Start("params"), Start("param"), Start("value"),
      Start("string"),
      Text(<<"S", "o", "u", "t", "h", " ", "D", "a", "k", "o", "t", "a">>),
      End("string"), End("value"), End("param"), Start("param"), Start("value"),
      Start("struct"), Start("member"), Start("name"), Text(<<"f", "o", "o">>),
      End("name"), Start("value"), Start("int"), Text(<<"4", "2">>), End("int"),
      End("value"), End("member"), Start("member"), Start("name"),
      Text(<<"b", "a", "r">>), End("name"), Start("value"), Start("string"),
      Text(<<"b", "a", "z">>), End("string"), End("value"), End("member"),
      Start("member"), Start("name"), Text(<<"b", "a", "r", "2">>), End("name"),
      Start("value"), Start("string"), Text(<<"b", "a", "z", "2">>), End("string"),
      End("value"), End("member"), End("struct"), End("value"), End("param"),
      End("params"), End("methodResponse")>>

ExpectedFailure ==
    <<Decl, Start("methodResponse"), Start("fault"), Start("value"), Start("struct"),
      Start("member"), Start("name"),
      Text(<<"f", "a", "u", "l", "t", "C", "o", "d", "e">>), End("name"), Start("value"),
      Start("int"), Text(<<"4">>), End("int"), End("value"), End("member"),
      Start("member"), Start("name"),
      Text(<<"f", "a", "u", "l", "t", "S", "t", "r", "i", "n", "g">>), End("name"),
      Start("value"), Start("string"),
      Text(<<"T", "o", "o", " ", "m", "a", "n", "y", " ", "p", "a", "r", "a", "m", "e", "t", "e", "r", "s", ".">>),
      End("string"), End("value"), End("member"), End("struct"), End("value"),
      End("fault"), End("methodResponse")>>

MessageWritten == pc \in {"call_written", "response_written"}

\* C24 as stated: the Request, the Success and the Failure of the tests are written
\* as the tests expect, the declaration and then the envelope without indentation,
\* and every Int, faultCode too, is written as <int>n</int>.
C24_TestedOutput ==
    MessageWritten =>
        /\ msg = TestedRequest => wire = ExpectedRequest
        /\ msg = TestedSuccess => wire = ExpectedSuccess
        /\ msg = TestedFailure => wire = ExpectedFailure
        /\ \A i \in 1..Len(wire) : wire[i].k = "start" => wire[i].s # "i4"

\* the kinds of the nodes of a Value tree
RECURSIVE KindsIn(_)
KindsIn(value) ==
    {value.k} \cup
    CASE value.k = "Array"  -> UNION {KindsIn(value.v[i]) : i \in 1..Len(value.v)}
      [] value.k = "Struct" -> UNION {KindsIn(m[2]) : m \in value.v}
      [] OTHER              -> {}

Encoded == pc \in {"serialized", "scalar_serialized"} /\ wire.ok

StringWanted == pc = "deserialized" /\ msg.k = "target" /\ msg.ty = TString

StringsWanted ==
    /\ pc = "deserialized"
    /\ msg.k = "target"
    /\ msg.ty \in {TVec(TString), TOption(TString)}
    /\ wire.val.k = "Array"

\* C25: the tree the serializer makes of an application value has no DateTime
\* node: its nodes are Int, Bool, String, Double, Base64, Array and Struct; a
\* String target is decoded from a String Value only, with its text, and from a
\* DateTime or any other variant it fails, also as an element of a Vec or in an
\* Option
C25_DateTimeAsymmetry ==
    /\ Encoded =>
          KindsIn(wire.val) \subseteq
              {"Int", "Bool", "String", "Double", "Base64", "Array", "Struct"}
    /\ StringWanted =>
          IF wire.val.k = "String" THEN res = Ok(wire.val.v) ELSE ~res.ok
    /\ StringsWanted =>
          ((\E i \in 1..Len(wire.val.v) : wire.val.v[i].k # "String") => ~res.ok)

C25_Witness ==
    /\ StringWanted
    /\ wire.val = XDateTime(IsoDate)
    /\ ~res.ok

\* the root element of a peer's call document, and its children of a tag
RootOf(tree) == tree.ch[1]

KidsTagged(node, tag) == SelectSeq(node.ch, LAMBDA c : has_tag_name(c, tag))

\* the <param> children of the first <params> element of a methodCall
ParamKids(root) ==
    IF KidsTagged(root, "params") = <<>> THEN <<>>
    ELSE KidsTagged(KidsTagged(root, "params")[1], "param")

\* C26: a well-formed document is read into a Request exactly if its root is
\* methodCall and has a methodName child; the name is the literal text of that
\* child; without a <params> element the parameter list is empty, and otherwise it
\* has one decoded Value per <param> child, in the order of the document
C26_CallAcceptance ==
    PeerCallRead =>
       LET root == RootOf(msg.tree)
       IN  /\ res.ok <=> /\ root.tag = "methodCall"
                         /\ KidsTagged(root, "methodName") # <<>>
           /\ res.ok =>
                /\ res.val.name = literal_text_in_node(KidsTagged(root, "methodName")[1])
                /\ KidsTagged(root, "params") = <<>> => res.val.params = <<>>
                /\ Len(res.val.params) = Len(ParamKids(root))
                /\ \A i \in 1..Len(ParamKids(root)) :
                      LET v == FirstValueOk(ParamKids(root)[i].ch)
                      IN  v.ok /\ res.val.params[i] = v.val

\* a peer's call with one param, a <boolean>, was read
BooleanRead ==
    /\ PeerCallRead
    /\ \E t \in BooleanTexts :
          msg.tree = CallDoc(<<MethodNameNode(<<"f">>), ParamsNode(<<LeafNode("boolean", t)>>)>>)

BooleanValue == ParamKids(RootOf(msg.tree))[1].ch[1]

BooleanText == literal_text_in_node(BooleanValue.ch[1])

\* a decimal integer: digits after an optional sign
Unsigned(text) == IF text # <<>> /\ text[1] \in {"+", "-"} THEN Tail(text) ELSE text

IsIntegerText(text) == Unsigned(text) # <<>> /\ AllDigits(Unsigned(text))

IsZeroText(text) == \A i \in 1..Len(Unsigned(text)) : Unsigned(text)[i] = "0"

\* a decimal integer of 0..255 with no minus sign
IsU8Text(text) ==
    /\ IsIntegerText(text)
    /\ text[1] # "-"
    /\ LET ds == StripLeadingZeros(Unsigned(text))
       IN  \/ Len(ds) < 3
           \/ Len(ds) = 3 /\ 100 * DigitVal(ds[1]) + 10 * DigitVal(ds[2]) + DigitVal(ds[3]) <= 255

\* the writer's part of C27: a Bool is written as <boolean> with the text 1 or 0,
\* and is read back as the same Bool
BoolWritten ==
    /\ pc \in {"call_written", "response_written"} /\ msg.k \in {"Request", "Success"} =>
          /\ \A i \in 1..Len(wire) :
                wire[i] = Start("boolean") => wire[i + 1] \in {Text(<<"1">>), Text(<<"0">>)}
          /\ \A b \in BOOLEAN :
                msg.params = <<VBool(b)>> =>
                   \E i \in 1..Len(wire) :
                      /\ wire[i] = Start("boolean")
                      /\ wire[i + 1] = Text(IF b THEN <<"1">> ELSE <<"0">>)
    /\ OwnMessageRead /\ msg.k \in {"Request", "Success"} =>
          \A i \in 1..Len(msg.params) :
             msg.params[i].k = "Bool" => res.ok /\ res.val.params[i] = msg.params[i]

\* C27 as stated: the text of <boolean> is parsed as an integer, 0 gives
\* Bool(false), every nonzero integer (1, 2, -1, ...) gives Bool(true), and a text
\* that is no integer fails; the writer emits only 1 and 0 and a Bool round-trips
C27_AnyInteger ==
    /\ BooleanRead =>
          LET decoded == Value_read_xml(BooleanValue)
          IN  IF IsIntegerText(BooleanText)
              THEN /\ decoded = Ok(VBool(~IsZeroText(BooleanText)))
                   /\ res.val.params = <<decoded.val>>
              ELSE ~decoded.ok /\ res.val.params = <<>>
    /\ BoolWritten

\* C27, amended: the text of <boolean> is parsed as an unsigned 8-bit integer
\* (digits after an optional +): 0 gives Bool(false), 1 to 255 give Bool(true),
\* and every other text fails, a negative number and a number above 255
\* included; the writer emits only 1 and 0 and a Bool round-trips
C27_BooleanLeaf ==
    /\ BooleanRead =>
          LET decoded == Value_read_xml(BooleanValue)
          IN  IF IsU8Text(BooleanText)
              THEN /\ decoded = Ok(VBool(~IsZeroText(BooleanText)))
                   /\ res.val.params = <<decoded.val>>
              ELSE ~decoded.ok /\ res.val.params = <<>>
    /\ BoolWritten

C27_Witness ==
    /\ BooleanRead
    /\ BooleanText = <<"-", "1">>
    /\ ~Value_read_xml(BooleanValue).ok
    /\ res.val.params = <<>>

\* the handlers registered under a name
RegisteredUnder(server, name) == {e[2] : e \in {f \in server.handlers : f[1] = name}}

\* the boxed handler that answers a call of a name
Answering(server, name, h) ==
    IF RegisteredUnder(server, name) # {}
    THEN RegisteredUnder(server, name) = {h}
    ELSE h = server.on_missing_method

\* where request r is in its cycle, and what it has done by then
CycleOf(r) ==
    LET q == res[r]
    IN  CASE q.stage \in {"waiting", "received", "decoded"} ->
                 q.called = <<>> /\ q.sent = <<>>
          [] q.stage = "failed" ->
                 ~wire[r].ok /\ q.called = <<>> /\ q.invoked = <<>>
          [] q.stage \in {"handled", "responded"} ->
                 /\ wire[r].ok
                 /\ Len(q.called) = 1
                 /\ Answering(msg, wire[r].val.name, q.called[1])
                 /\ q.response = call_handler(q.called[1], wire[r].val.params).response
                 /\ q.sent = IF q.stage = "handled" THEN <<>> ELSE <<Ok(to_xml(q.response))>>

\* a step adds at most one call of a handler and one response, and takes none back;
\* the response is sent by a step of its own, after the one that called the handler
CycleStep(r) ==
    /\ res'[r].called \in {res[r].called} \cup {res[r].called \o <<h>> : h \in {handler_for(msg, n) : n \in MethodNamesCalled}}
    /\ Len(res'[r].sent) \in {Len(res[r].sent), Len(res[r].sent) + 1}
    /\ res'[r].sent # res[r].sent /\ wire[r].ok => res'[r].called = res[r].called /\ Len(res[r].called) = 1
    /\ res'[r].called # res[r].called => res[r].stage = "decoded"

\* C28: a request whose body is decoded into a call has exactly one handler called,
\* the one registered under the name of the call or else the handler of missing
\* methods, exactly once and only after the decoding; it is then answered, with
\* exactly one response whose body is the encoding of the Response of that handler;
\* it is not answered before the handler has returned, and not twice
C28_OneCycle ==
    /\ [](Listening => \A r \in RequestIds : CycleOf(r))
    /\ [][Listening => \A r \in RequestIds : CycleStep(r)]_vars
    /\ \A r \in RequestIds :
          (Listening /\ res[r].stage = "decoded") ~> (Listening /\ res[r].stage = "responded")

C28_Witness ==
    /\ Listening
    /\ res[1].stage = "responded"
    /\ wire[1].ok
    /\ RegisteredUnder(msg, wire[1].val.name) = {res[1].called[1]}
    /\ res[1].sent = <<Ok(to_xml(res[1].response))>>
    /\ res[2].stage = "decoded"

\* the boxed handler that a call on the server hands to it
Boxed(c) ==
    IF c.method = "register_simple"
    THEN RegisteredHandler(c.h, "on_encode_fail", "on_decode_fail")
    ELSE c.h

\* the last of the calls that registered a handler under the name (0: none did), and
\* the last call of set_on_missing (0: there was none)
LastRegistered(calls, name) ==
    LET at == {i \in 1..Len(calls) :
                  calls[i].method # "set_on_missing" /\ calls[i].name = name}
    IN  IF at = {} THEN 0 ELSE CHOOSE i \in at : \A j \in at : j <= i

LastOnMissing(calls) ==
    LET at == {i \in 1..Len(calls) : calls[i].method = "set_on_missing"}
    IN  IF at = {} THEN 0 ELSE CHOOSE i \in at : \A j \in at : j <= i

\* the handler that the history of the server gives to a name
Dispatched(calls, name) ==
    IF LastRegistered(calls, name) # 0 THEN Boxed(calls[LastRegistered(calls, name)])
    ELSE IF LastOnMissing(calls) # 0 THEN Boxed(calls[LastOnMissing(calls)])
    ELSE MissingMethodHandler

\* a call was made on the server
Configured == pc = "configuring" /\ pc' = "configuring" /\ msg'.calls # msg.calls

\* C29: a call of a name is answered by the handler that was registered last under
\* that name, or, when none was, by the handler that set_on_missing was given last
\* (the one of the fault 404 when it was never called); registering under a name
\* changes neither the handlers of the other names nor the handler of missing
\* methods, and set_on_missing changes no registered handler
C29_RegistrationState ==
    /\ [](Responded /\ wire.ok =>
             LET h == Dispatched(msg.calls, wire.val.name)
             IN  /\ res.reply = Ok(call_handler(h, wire.val.params).response)
                 /\ res.invoked = call_handler(h, wire.val.params).invoked)
    /\ [](pc \in {"configuring", "serving"} =>
             \A name \in MethodNamesCalled :
                Answering(msg, name, Dispatched(msg.calls, name)))
    /\ [][Configured =>
             LET c == msg'.calls[Len(msg'.calls)]
             IN  IF c.method = "set_on_missing"
                 THEN msg'.handlers = msg.handlers
                 ELSE /\ msg'.on_missing_method = msg.on_missing_method
                      /\ \A name \in MethodNamesCalled \ {c.name} :
                            RegisteredUnder(msg', name) = RegisteredUnder(msg, name)]_vars

\* a name was registered twice, set_on_missing was called, and the call of the name
\* is answered by the second handler
C29_Witness ==
    /\ Responded
    /\ wire.ok
    /\ Len(msg.calls) = 3
    /\ msg.calls[1].method = "register_simple"
    /\ msg.calls[2].method = "register_value"
    /\ msg.calls[2].name = msg.calls[1].name
    /\ msg.calls[3].method = "set_on_missing"
    /\ wire.val.name = msg.calls[1].name
    /\ res.invoked = <<"mirror">>

\* the handler of the method called got its request and returned a fault
Refused ==
    /\ SimpleCalled
    /\ from_params(SimpleHandler.Treq, wire.val.params).ok
    /\ ~run(SimpleHandler, from_params(SimpleHandler.Treq, wire.val.params).val).ok

RefusedWith == run(SimpleHandler, from_params(SimpleHandler.Treq, wire.val.params).val).val

\* C30: when a handler registered with register or register_simple gets its
\* decoded request and returns Err(fault), the Response is that fault, with its
\* code and its message; into_params is not run on a reply, and neither the handler
\* of encode failures nor the one of decode failures is called
C30_FaultPassThrough ==
    Refused =>
        /\ res.reply.ok /\ ~res.reply.val.ok
        /\ res.reply.val.val.code = RefusedWith.code
        /\ res.reply.val.val.message = RefusedWith.message
        /\ res.invoked = <<SimpleHandler.fn>>
        /\ res.ran = <<"from_params", "handler">>

C30_Witness ==
    /\ Refused
    /\ SimpleHandler = Refuse
    /\ wire.val.params = <<XString(<<"a">>)>>
    /\ res.reply = Ok(Err(Fault_new(I(7), <<"no">>)))
    /\ res.ran = <<"from_params", "handler">>

====
